---- MODULE Spec2Model ----
(***************************************************************************)
(* A model of unsb3, a tree-walking interpreter for Scratch 3 projects.    *)
(*                                                                         *)
(*   - the value model of src/src/expr.rs (Value, coercions),              *)
(*   - the evaluator of src/src/vm.rs (VM::run, run_proc, run_statement,   *)
(*     eval_expr, call_builtin_statement, eval_funcall) as a small-step    *)
(*     machine: `ctl` is the statement being executed or the result being  *)
(*     returned, `stack` is the Rust call stack of run_statement frames,   *)
(*   - the command line wrapper of src/src/main.rs,                        *)
(*   - the block-graph lowerer of src/src/deser.rs (build_statement).      *)
(*                                                                         *)
(* Rust Strings that meet Values are sequences of one-character strings.   *)
(* HashMaps that the code iterates (sprites, ProcCall args) are sequences  *)
(* in iteration order; the order is part of the input.                     *)
(***************************************************************************)
EXTENDS Integers, Sequences, FiniteSets, TLC

\* ---------------------------------------------------------------- bounds

\* Statements executed by one run before the model stops following it.
MaxSteps == 14

\* Largest block map the lowerer is applied to.
MaxBlocks == 4

\* ------------------------------------------------------------- utilities

None == [some |-> FALSE]

Some(x) == [some |-> TRUE, v |-> x]

Last(s) == s[Len(s)]

Front(s) == SubSeq(s, 1, Len(s) - 1)

\* f64: finite whole numbers and odd multiples of one half, the two
\* infinities and NaN.
Fin(n) == [k |-> "fin", v |-> n]

\* h / 2 for an odd h
Half(h) == [k |-> "half", v |-> h]

\* f64::is_finite
is_finite(x) == x.k \in {"fin", "half"}

\* A finite number counted in halves, and back.
Halves(x) == IF x.k = "half" THEN x.v ELSE 2 * x.v

FromHalves(h) == IF h % 2 = 0 THEN Fin(h \div 2) ELSE Half(h)

PosInf == [k |-> "inf", v |-> 0]

NegInf == [k |-> "ninf", v |-> 0]

NaN == [k |-> "nan", v |-> 0]

is_nan(x) == x.k = "nan"

\* f64 addition (ops::Add::add).
FAdd(a, b) ==
  IF is_nan(a) \/ is_nan(b) THEN NaN
  ELSE IF is_finite(a) /\ is_finite(b) THEN FromHalves(Halves(a) + Halves(b))
  ELSE IF is_finite(a) THEN b
  ELSE IF is_finite(b) THEN a
  ELSE IF a.k = b.k THEN a
  ELSE NaN

FNeg(a) ==
  IF is_finite(a) THEN FromHalves(0 - Halves(a))
  ELSE IF a.k = "inf" THEN NegInf
  ELSE IF a.k = "ninf" THEN PosInf
  ELSE NaN

\* f64 subtraction (ops::Sub::sub).
FSub(a, b) == FAdd(a, FNeg(b))

\* `a > 0.0` on f64 (false for NaN).
FPositive(a) == a.k = "inf" \/ (is_finite(a) /\ Halves(a) > 0)

\* ---------------------------------------------------------------- values

Num(x) == [t |-> "Num", n |-> x]

Str(s) == [t |-> "Str", s |-> s]

Bool(b) == [t |-> "Bool", b |-> b]

\* The number zero as a Value
ZeroValue == Num(Fin(0))

\* impl Default for Value
DefaultValue == Str(<<>>)

Digits == <<"0", "1", "2", "3", "4", "5", "6", "7", "8", "9">>

Upper == <<"A", "B", "C", "D", "E", "F", "G", "H", "I", "J", "K", "L", "M",
           "N", "O", "P", "Q", "R", "S", "T", "U", "V", "W", "X", "Y", "Z">>

Lower == <<"a", "b", "c", "d", "e", "f", "g", "h", "i", "j", "k", "l", "m",
           "n", "o", "p", "q", "r", "s", "t", "u", "v", "w", "x", "y", "z">>

IsDigit(c) == \E i \in 1..10 : Digits[i] = c

DigitVal(c) == (CHOOSE i \in 1..10 : Digits[i] = c) - 1

\* char::to_ascii_lowercase
to_ascii_lowercase(c) ==
  IF \E i \in 1..26 : Upper[i] = c
  THEN Lower[CHOOSE i \in 1..26 : Upper[i] = c]
  ELSE c

LowerStr(s) == [i \in 1..Len(s) |-> to_ascii_lowercase(s[i])]

eq_ignore_ascii_case(s, t) == LowerStr(s) = LowerStr(t)

IsSpace(c) == c = " "

RECURSIVE TrimStart(_)
TrimStart(s) ==
  IF s # <<>> /\ IsSpace(s[1]) THEN TrimStart(Tail(s)) ELSE s

RECURSIVE TrimEnd(_)
TrimEnd(s) ==
  IF s # <<>> /\ IsSpace(Last(s)) THEN TrimEnd(Front(s)) ELSE s

\* str::trim
Trim(s) == TrimEnd(TrimStart(s))

RECURSIVE NatDigits(_)
NatDigits(n) ==
  IF n < 10 THEN <<Digits[n + 1]>>
  ELSE NatDigits(n \div 10) \o <<Digits[(n % 10) + 1]>>

RECURSIVE DigitsValue(_, _)
DigitsValue(s, acc) ==
  IF s = <<>> THEN acc
  ELSE DigitsValue(Tail(s), 10 * acc + DigitVal(s[1]))

AllDigits(s) == s # <<>> /\ \A i \in 1..Len(s) : IsDigit(s[i])

\* The digits `whole` "." `frac` as a number: the fractions of the model's
\* strings are none, zeros, and a 5 followed by zeros.
Decimal(neg, whole, frac) ==
  FromHalves((IF neg THEN 0 - 1 ELSE 1)
               * (2 * DigitsValue(whole, 0)
                    + (IF frac # <<>> /\ frac[1] = "5" THEN 1 ELSE 0)))

\* Where the "." of `body` is, 0 if it has none.
DotOf(body) ==
  IF \E i \in 1..Len(body) : body[i] = "."
  THEN CHOOSE i \in 1..Len(body) :
         body[i] = "." /\ \A j \in 1..(i - 1) : body[j] # "."
  ELSE 0

\* `body` is digits with a "." at d among them, and at least one digit.
IsDecimal(body, d) ==
  /\ d > 0
  /\ Len(body) > 1
  /\ \A i \in 1..Len(body) : i = d \/ IsDigit(body[i])

\* <f64 as FromStr>::from_str on the strings of the model: an optional sign
\* followed by decimal digits with at most one ".", or a spelling of
\* infinity or NaN in any case.  (Strings with an exponent do not occur in
\* the model.)
ParseUnsigned(neg, body, low) ==
  IF AllDigits(body)
  THEN Some(IF neg THEN Fin(0 - DigitsValue(body, 0))
            ELSE Fin(DigitsValue(body, 0)))
  ELSE IF IsDecimal(body, DotOf(body))
  THEN Some(Decimal(neg, SubSeq(body, 1, DotOf(body) - 1),
                    SubSeq(body, DotOf(body) + 1, Len(body))))
  ELSE IF low \in {<<"i", "n", "f">>, <<"i", "n", "f", "i", "n", "i", "t", "y">>}
  THEN Some(IF neg THEN NegInf ELSE PosInf)
  ELSE IF low = <<"n", "a", "n">> THEN Some(NaN)
  ELSE None

ParseSigned(neg, body) == ParseUnsigned(neg, body, LowerStr(body))

ParseF64(s) ==
  IF s # <<>> /\ s[1] \in {"-", "+"} THEN ParseSigned(s[1] = "-", Tail(s))
  ELSE ParseSigned(FALSE, s)

\* Option::filter(|n| !n.is_nan())
FilterNaN(p) == IF p.some /\ ~is_nan(p.v) THEN p ELSE None

\* try_str_to_num after `s.trim()`
TrimmedToNum(t) ==
  IF t \in {<<"I", "n", "f", "i", "n", "i", "t", "y">>,
            <<"+", "I", "n", "f", "i", "n", "i", "t", "y">>}
  THEN Some(PosInf)
  ELSE IF t = <<"-", "I", "n", "f", "i", "n", "i", "t", "y">>
  THEN Some(NegInf)
  ELSE IF t \in {<<"i", "n", "f">>, <<"+", "i", "n", "f">>, <<"-", "i", "n", "f">>}
  THEN None
  ELSE FilterNaN(ParseF64(t))

try_str_to_num(s) == TrimmedToNum(Trim(s))

to_bool(v) ==
  IF v.t = "Num" THEN ~(v.n.k = "fin" /\ v.n.v = 0) /\ ~is_nan(v.n)
  ELSE IF v.t = "Str"
  THEN v.s # <<>> /\ v.s # <<"0">>
       /\ ~eq_ignore_ascii_case(v.s, <<"f", "a", "l", "s", "e">>)
  ELSE v.b

try_to_num(v) ==
  IF v.t = "Num" THEN (IF is_nan(v.n) THEN None ELSE Some(v.n))
  ELSE IF v.t = "Str" THEN try_str_to_num(v.s)
  ELSE Some(IF v.b THEN Fin(1) ELSE Fin(0))

\* Option::unwrap_or
UnwrapOr(r, d) == IF r.some THEN r.v ELSE d

to_num(v) == UnwrapOr(try_to_num(v), Fin(0))

number_to_string(num) ==
  IF num.k = "inf" THEN <<"I", "n", "f", "i", "n", "i", "t", "y">>
  ELSE IF num.k = "ninf"
  THEN <<"-", "I", "n", "f", "i", "n", "i", "t", "y">>
  ELSE IF num.k = "nan" THEN <<"N", "a", "N">>
  ELSE IF num.k = "half"
  THEN (IF num.v < 0 THEN <<"-">> \o NatDigits((0 - num.v) \div 2)
        ELSE NatDigits(num.v \div 2)) \o <<".", "5">>
  ELSE IF num.v < 0 THEN <<"-">> \o NatDigits(0 - num.v)
  ELSE NatDigits(num.v)

\* impl fmt::Display for Value
to_string(v) ==
  IF v.t = "Num" THEN number_to_string(v.n)
  ELSE IF v.t = "Str" THEN v.s
  ELSE IF v.b THEN <<"t", "r", "u", "e">>
  ELSE <<"f", "a", "l", "s", "e">>

\* The characters of the model's strings in ASCII (= UTF-8 byte) order.
Ascii == <<" ", "%", "+", "-", ".">> \o Digits \o Upper \o Lower

\* Characters outside ASCII, written as their code points, in code point
\* (= UTF-8 byte) order: e with acute, the euro sign.
NonAscii == <<"U+00E9", "U+20AC">>

\* char::len_utf8
len_utf8(c) == IF c = "U+00E9" THEN 2 ELSE IF c = "U+20AC" THEN 3 ELSE 1

\* str::len: the length in bytes
RECURSIVE ByteLen(_)
ByteLen(s) == IF s = <<>> THEN 0 ELSE len_utf8(s[1]) + ByteLen(Tail(s))

\* str::chars().count(): the length in chars
CharLen(s) == Len(s)

CharCode(c) ==
  CHOOSE i \in 1..(Len(Ascii) + Len(NonAscii)) : (Ascii \o NonAscii)[i] = c

\* Ord for str: byte-wise lexicographic.  "Less" | "Equal" | "Greater"
RECURSIVE StrCmp(_, _)
StrCmp(a, b) ==
  IF a = <<>> /\ b = <<>> THEN "Equal"
  ELSE IF a = <<>> THEN "Less"
  ELSE IF b = <<>> THEN "Greater"
  ELSE IF CharCode(a[1]) < CharCode(b[1]) THEN "Less"
  ELSE IF CharCode(a[1]) > CharCode(b[1]) THEN "Greater"
  ELSE StrCmp(Tail(a), Tail(b))

\* f64::partial_cmp on two numbers that are not NaN.
FRank(x) == IF x.k = "ninf" THEN 0 ELSE IF is_finite(x) THEN 1 ELSE 2

FCmp(a, b) ==
  IF FRank(a) < FRank(b) THEN "Less"
  ELSE IF FRank(a) > FRank(b) THEN "Greater"
  ELSE IF ~is_finite(a) THEN "Equal"
  ELSE IF Halves(a) < Halves(b) THEN "Less"
  ELSE IF Halves(a) > Halves(b) THEN "Greater"
  ELSE "Equal"

\* Value::compare, given the two try_to_num results
CompareWith(l, r, a, b) ==
  IF l.some /\ r.some THEN FCmp(l.v, r.v)
  ELSE StrCmp(LowerStr(to_string(a)), LowerStr(to_string(b)))

\* Value::compare
compare(a, b) == CompareWith(try_to_num(a), try_to_num(b), a, b)

\* usize::MAX, as far as TLC's integers go.
UsizeMax == 2147483647

\* `n as usize`: a saturating cast that drops the fraction.
AsUsize(x) ==
  IF x.k = "inf" THEN UsizeMax
  ELSE IF is_finite(x) /\ Halves(x) > 0 THEN Halves(x) \div 2
  ELSE 0

IndexLast == [i |-> "Last", n |-> 0]

IndexNth(n) == [i |-> "Nth", n |-> n]

\* Value::to_index; Nth is 0-based as in the code.
\* usize::checked_sub(1).map(Index::Nth)
CheckedSub1(u) == IF u >= 1 THEN Some(IndexNth(u - 1)) ELSE None

\* Option::and_then(|n| (n as usize).checked_sub(1).map(Index::Nth))
NumToIndex(r) == IF r.some THEN CheckedSub1(AsUsize(r.v)) ELSE None

to_index(v) ==
  IF v.t = "Str" /\ v.s = <<"l", "a", "s", "t">> THEN Some(IndexLast)
  ELSE NumToIndex(try_to_num(v))

\* ----------------------------------------------------------- expressions

Lit(v) == [e |-> "Lit", v |-> v]

GetVar(id) == [e |-> "GetVar", var_id |-> id]

ProcArg(name) == [e |-> "ProcArgStringNumber", name |-> name]

ItemOfList(id, index) == [e |-> "ItemOfList", list_id |-> id, index |-> index]

LengthOfList(id) == [e |-> "LengthOfList", list_id |-> id]

Call(opcode, inputs) == [e |-> "Call", opcode |-> opcode, inputs |-> inputs]

NoInputs == [x \in {} |-> Lit(DefaultValue)]

In1(k, e) == [x \in {k} |-> e]

In2(k1, e1, k2, e2) == [x \in {k1, k2} |-> IF x = k1 THEN e1 ELSE e2]

\* VMResult<Value>: Ok(v) or Err(e); "panic" stands for a Rust panic.
OkV(v) == [ok |-> TRUE, v |-> v, err |-> "Ok"]

ErrV(e) == [ok |-> FALSE, v |-> DefaultValue, err |-> e]

\* HashMap::insert
Insert(m, k, v) == [x \in DOMAIN m \cup {k} |-> IF x = k THEN v ELSE m[x]]

EmptyMap == [x \in {} |-> 0]

\* ------------------------------------------------------------------ state

VARIABLES
  mainpc,     \* main(): "open" | "zip" | "entry" | "deser" | "run" | "exited"
  exitCode,   \* the process exit status once exited, -1 before
  stderr,     \* what main reported with eprintln!, "" if nothing
  project,    \* the deserialized VM: [sprites |-> <<sprite, ...>>]
  ctl,        \* the evaluator's position: see below
  stack,      \* the call stack of run / run_proc / run_statement frames
  vars,       \* VM.vars
  lists,      \* VM.lists
  proc_args,  \* VM.proc_args: parameter name -> stack of values
  answer,     \* VM.answer
  xy,         \* sprite index -> [x, y]: Sprite.x, Sprite.y
  out,        \* what was written to stdout, one entry per print
  trace,      \* history: one entry per run_statement / run_proc entered
  blocks,     \* lowerer: the block map being lowered
  lowered,    \* lowerer: the result of build_statement, or "none" before
  operands,   \* values: the Values a function of Value is applied to
  computed    \* values: what the function returned, or "none" before

vars_vm == <<project, ctl, stack, vars, lists, proc_args, answer, xy, out, trace>>

vars_main == <<mainpc, exitCode, stderr>>

vars_lower == <<blocks, lowered>>

vars_value == <<operands, computed>>

allvars == <<mainpc, exitCode, stderr, project, ctl, stack, vars, lists,
             proc_args, answer, xy, out, trace, blocks, lowered, operands,
             computed>>

\* ------------------------------------------------------- eval_expr (pure)

RECURSIVE EvalExpr(_, _, _)

\* VM::input: eval_expr(inputs.get(name).unwrap())
Input(pa, spr, inputs, name) ==
  IF name \in DOMAIN inputs THEN EvalExpr(pa, spr, inputs[name])
  ELSE ErrV("panic")

\* Two operands evaluated left to right with `?`: the first failure, if any.
FirstFailure(l, r) == IF ~l.ok THEN l ELSE r

BothOk(l, r) == l.ok /\ r.ok

\* VM::bin_num_op, given its evaluated inputs; f is ops::Sub::sub if `sub`,
\* ops::Add::add if not
BinNumOp(l, r, sub) ==
  IF ~BothOk(l, r) THEN FirstFailure(l, r)
  ELSE OkV(Num(IF sub THEN FSub(to_num(l.v), to_num(r.v))
               ELSE FAdd(to_num(l.v), to_num(r.v))))

\* VM::bin_num_op
bin_num_op(pa, spr, inputs, sub) ==
  BinNumOp(Input(pa, spr, inputs, "NUM1"), Input(pa, spr, inputs, "NUM2"), sub)

\* operator_equals / operator_lt / operator_gt
CompareOp(l, r, want) ==
  IF ~BothOk(l, r) THEN FirstFailure(l, r)
  ELSE OkV(Bool(compare(l.v, r.v) = want))

NotOp(o) == IF ~o.ok THEN o ELSE OkV(Bool(~to_bool(o.v)))

JoinOp(l, r) ==
  IF ~BothOk(l, r) THEN FirstFailure(l, r)
  ELSE OkV(Str(to_string(l.v) \o to_string(r.v)))

\* "operator_length", given its evaluated input
LengthOp(s) == IF ~s.ok THEN s ELSE OkV(Num(Fin(ByteLen(to_string(s.v)))))

\* `s.to_string().chars().nth(i)` under `match index`
LetterAt(chars, ix) ==
  IF ~ix.some \/ ix.v.i = "Last" THEN DefaultValue
  ELSE IF ix.v.n < Len(chars) THEN Str(<<chars[ix.v.n + 1]>>)
  ELSE DefaultValue

\* "operator_letter_of", given its evaluated inputs
LetterOp(s, index) ==
  IF ~BothOk(s, index) THEN FirstFailure(s, index)
  ELSE OkV(LetterAt(to_string(s.v), to_index(index.v)))

\* VM::eval_funcall.  (operator_or, operator_and, operator_multiply,
\* operator_divide and sensing_timer are not used by the programs of the
\* model.)
eval_funcall(pa, spr, opcode, inputs) ==
  CASE opcode \in {"operator_equals", "operator_lt", "operator_gt"} ->
         CompareOp(Input(pa, spr, inputs, "OPERAND1"),
                   Input(pa, spr, inputs, "OPERAND2"),
                   IF opcode = "operator_equals" THEN "Equal"
                   ELSE IF opcode = "operator_lt" THEN "Less" ELSE "Greater")
    [] opcode = "operator_not" -> NotOp(Input(pa, spr, inputs, "OPERAND"))
    [] opcode \in {"operator_add", "operator_subtract"} ->
         bin_num_op(pa, spr, inputs, opcode = "operator_subtract")
    [] opcode = "operator_join" ->
         JoinOp(Input(pa, spr, inputs, "STRING1"), Input(pa, spr, inputs, "STRING2"))
    [] opcode = "operator_length" -> LengthOp(Input(pa, spr, inputs, "STRING"))
    [] opcode = "operator_letter_of" ->
         LetterOp(Input(pa, spr, inputs, "STRING"), Input(pa, spr, inputs, "LETTER"))
    [] opcode = "motion_xposition" -> OkV(Num(xy[spr].x))
    [] opcode = "motion_yposition" -> OkV(Num(xy[spr].y))
    [] opcode = "sensing_answer" -> OkV(Str(answer))
    [] OTHER -> ErrV("UnknownOpcode")

\* `match index { Nth(i) => lst.get(i), Last => lst.last() }.cloned()`
ListGet(lst, ix) ==
  IF ~ix.some THEN None
  ELSE IF ix.v.i = "Nth"
  THEN (IF ix.v.n < Len(lst) THEN Some(lst[ix.v.n + 1]) ELSE None)
  ELSE (IF lst # <<>> THEN Some(Last(lst)) ELSE None)

\* Expr::ItemOfList, given the evaluated index
ItemOf(list_id, index) ==
  IF ~index.ok THEN index
  ELSE IF list_id \notin DOMAIN lists THEN OkV(DefaultValue)
  ELSE OkV(UnwrapOr(ListGet(lists[list_id], to_index(index.v)), DefaultValue))

\* VM::eval_expr, with proc_args passed in (`pa`): a ProcCall evaluates its
\* arguments between pushes.
EvalExpr(pa, spr, expr) ==
  CASE expr.e = "Lit" -> OkV(expr.v)
    [] expr.e = "GetVar" ->
         OkV(IF expr.var_id \in DOMAIN vars THEN vars[expr.var_id]
             ELSE DefaultValue)
    [] expr.e = "ProcArgStringNumber" ->
         OkV(IF expr.name \in DOMAIN pa /\ pa[expr.name] # <<>>
             THEN Last(pa[expr.name])
             ELSE DefaultValue)
    [] expr.e = "ItemOfList" ->
         ItemOf(expr.list_id, EvalExpr(pa, spr, expr.index))
    [] expr.e = "LengthOfList" ->
         OkV(Num(Fin(IF expr.list_id \in DOMAIN lists
                     THEN Len(lists[expr.list_id]) ELSE 0)))
    [] expr.e = "Call" -> eval_funcall(pa, spr, expr.opcode, expr.inputs)

\* ------------------------------------------------------------- statements

Builtin(opcode, inputs) == [type |-> "Builtin", opcode |-> opcode, inputs |-> inputs]

Do(stmts) == [type |-> "Do", stmts |-> stmts]

If(c, t) == [type |-> "If", condition |-> c, if_true |-> t]

IfElse(c, t, f) == [type |-> "IfElse", condition |-> c, if_true |-> t, if_false |-> f]

Repeat(times, body) == [type |-> "Repeat", times |-> times, body |-> body]

Forever(body) == [type |-> "Forever", body |-> body]

Until(c, body) == [type |-> "Until", condition |-> c, body |-> body]

While(c, body) == [type |-> "While", condition |-> c, body |-> body]

For(id, times, body) == [type |-> "For", counter_id |-> id, times |-> times, body |-> body]

\* args: <<[id |-> arg id, expr |-> Expr], ...>> in the HashMap's iteration order
ProcCall(proccode, args) == [type |-> "ProcCall", proccode |-> proccode, args |-> args]

Arg(id, expr) == [id |-> id, expr |-> expr]

DeleteAllOfList(id) == [type |-> "DeleteAllOfList", list_id |-> id]

DeleteOfList(id, index) == [type |-> "DeleteOfList", list_id |-> id, index |-> index]

AddToList(id, item) == [type |-> "AddToList", list_id |-> id, item |-> item]

ReplaceItemOfList(id, index, item) ==
  [type |-> "ReplaceItemOfList", list_id |-> id, index |-> index, item |-> item]

SetVariable(id, value) == [type |-> "SetVariable", var_id |-> id, value |-> value]

ChangeVariableBy(id, value) == [type |-> "ChangeVariableBy", var_id |-> id, value |-> value]

StopAll == [type |-> "StopAll"]

StopThisScript == [type |-> "StopThisScript"]

\* proc.rs: Signature
WhenFlagClicked == [kind |-> "WhenFlagClicked", name |-> <<>>]

WhenBroadcastReceived(name) == [kind |-> "WhenBroadcastReceived", name |-> name]

Proc(signature, body) == [signature |-> signature, body |-> body]

\* Proc::is_the_broadcast
is_the_broadcast(proc, name) ==
  proc.signature.kind = "WhenBroadcastReceived" /\ proc.signature.name = name

\* ------------------------------------------------------- evaluator control

\* VMResult<()>: "Ok", or Err of "StopThisScript" | "StopAll" |
\* "UnknownOpcode" | "IOError"
NoStmt == Do(<<>>)

Idle == [mode |-> "idle", sprite |-> 0, stmt |-> NoStmt, res |-> "Ok"]

Exec(spr, stmt) == [mode |-> "exec", sprite |-> spr, stmt |-> stmt, res |-> "Ok"]

Ret(res) == [mode |-> "ret", sprite |-> 0, stmt |-> NoStmt, res |-> res]

Panic == [mode |-> "panic", sprite |-> 0, stmt |-> NoStmt, res |-> "Ok"]

Done(res) == [mode |-> "done", sprite |-> 0, stmt |-> NoStmt, res |-> res]

\* An eval_expr outcome as the statement's outcome: `?` on Err, abort on panic.
Raise(r) == IF r.err = "panic" THEN Panic ELSE Ret(r.err)

\* A frame of the call stack.  kind: "Run" | "RunProc" | "Broadcast" | "Do" |
\* "Repeat" | "Forever" | "Until" | "While" | "For" | "ProcCall".
\*   sprite, stmt: the arguments of the run_statement call the frame is in
\*   i, n: the loop's counter and limit (Run, Broadcast: sprite and proc index)
\*   name: the broadcast name
\*   saved: for ProcCall, the depths of proc_args when the call began (history)
Frame(kind, spr, stmt, i, n) ==
  [kind |-> kind, sprite |-> spr, stmt |-> stmt, i |-> i, n |-> n,
   name |-> <<>>, saved |-> EmptyMap]

Top == stack[Len(stack)]

Pop == SubSeq(stack, 1, Len(stack) - 1)

Push(f) == Append(stack, f)

ReplaceTop(f) == Append(Pop, f)

Depths(pa) == [k \in DOMAIN pa |-> Len(pa[k])]

Sprites == project.sprites

IsFlagHat(proc) == proc.signature.kind = "WhenFlagClicked"

\* VM::run's loops: the position after (si, pi) in
\* `for spr in sprites.values() { for proc in &spr.procs {` of the next proc
\* with Signature::WhenFlagClicked; <<0, 0>> when the loops run out.
RECURSIVE NextFlagHat(_, _, _)
NextFlagHat(sprs, si, pi) ==
  IF si > Len(sprs) THEN <<0, 0>>
  ELSE IF pi + 1 > Len(sprs[si].procs) THEN NextFlagHat(sprs, si + 1, 0)
  ELSE IF IsFlagHat(sprs[si].procs[pi + 1]) THEN <<si, pi + 1>>
  ELSE NextFlagHat(sprs, si, pi + 1)

\* Loops that find no receiver.
NoReceiver(sprs, si, pi, name) == <<0, 0>>

\* event_broadcastandwait's loops: the next proc that is_the_broadcast(name).
RECURSIVE NextReceiver(_, _, _, _)
NextReceiver(sprs, si, pi, name) ==
  IF si > Len(sprs) THEN <<0, 0>>
  ELSE IF pi + 1 > Len(sprs[si].procs) THEN NextReceiver(sprs, si + 1, 0, name)
  ELSE IF is_the_broadcast(sprs[si].procs[pi + 1], name) THEN <<si, pi + 1>>
  ELSE NextReceiver(sprs, si, pi + 1, name)

\* ---------------------------------------------------------------- history

\* The innermost procedure boundary on the call stack: the index of the top
\* ProcCall or RunProc frame, 0 if there is none.
RECURSIVE Boundary(_)
Boundary(stk) ==
  IF stk = <<>> THEN 0
  ELSE IF Last(stk).kind \in {"ProcCall", "RunProc"} THEN Len(stk)
  ELSE Boundary(Front(stk))

\* What the boundary at index p is: a custom procedure's body ("Custom"), a
\* green-flag hat run by run() ("Hat") or a receiver run by a broadcast
\* ("Receiver").
BoundaryKind(stk, p) ==
  IF p = 0 THEN "none"
  ELSE IF stk[p].kind = "ProcCall" THEN "Custom"
  ELSE IF p > 1 /\ stk[p - 1].kind = "Run" THEN "Hat"
  ELSE "Receiver"

\* The caller of the boundary at index p is a Do with a statement after the
\* one that is running.
HasNextInCaller(stk, p) ==
  p > 1 /\ stk[p - 1].kind = "Do" /\ stk[p - 1].i < Len(stk[p - 1].stmt.stmts)

NextInCaller(stk, p) ==
  IF HasNextInCaller(stk, p) THEN stk[p - 1].stmt.stmts[stk[p - 1].i + 1]
  ELSE NoStmt

\* The statement is a child of a Do that has a later child.
HasAfter(stk) ==
  stk # <<>> /\ Last(stk).kind = "Do" /\ Last(stk).i < Len(Last(stk).stmt.stmts)

After(stk) == IF HasAfter(stk) THEN Last(stk).stmt.stmts[Last(stk).i + 1] ELSE NoStmt

\* One history entry.  ev: "stmt" (run_statement entered on stmt), "hat"
\* (run() enters run_proc on the proc at `hat`), "recv" (a broadcast enters
\* run_proc on the proc at `hat`).  raised: the result when the statement
\* finished at once, "none" when it went on into a child, "panic".
EntryAt(p, ev, spr, stmt, hat, raised) ==
  [ev |-> ev, sprite |-> spr, stmt |-> stmt, hat |-> hat,
   depth |-> Len(stack), raised |-> raised,
   boundary |-> p, bkind |-> BoundaryKind(stack, p),
   hasNext |-> HasNextInCaller(stack, p),
   next |-> NextInCaller(stack, p),
   hasAfter |-> HasAfter(stack),
   after |-> After(stack)]

Entry(ev, spr, stmt, hat, raised) ==
  EntryAt(Boundary(stack), ev, spr, stmt, hat, raised)

Raised(c) == IF c.mode = "ret" THEN c.res
             ELSE IF c.mode = "panic" THEN "panic" ELSE "none"

\* ---------------------------------------------------------------- actions

\* run_statement is entered on a statement of type T.
CanExec(T) ==
  /\ mainpc = "run"
  /\ ctl.mode = "exec"
  /\ ctl.stmt.type = T
  /\ Len(trace) < MaxSteps

\* A result is being returned into a frame of kind K.
Returning(K) ==
  /\ mainpc = "run"
  /\ ctl.mode = "ret"
  /\ stack # <<>>
  /\ Top.kind = K

\* The statement goes on as `c` with call stack `stk`.
StepR(c, stk, raised) ==
  /\ ctl' = c
  /\ stack' = stk
  /\ trace' = Append(trace, Entry("stmt", ctl.sprite, ctl.stmt, <<0, 0>>, raised))
  /\ UNCHANGED <<mainpc, exitCode, stderr, project, blocks, lowered>>
  /\ UNCHANGED vars_value

Step(c, stk) == StepR(c, stk, Raised(c))

\* A frame receives a result: nothing is entered, the history stays.
Resume(c, stk) ==
  /\ ctl' = c
  /\ stack' = stk
  /\ UNCHANGED <<mainpc, exitCode, stderr, project, blocks, lowered, trace>>
  /\ UNCHANGED vars_value

DataUnchanged == UNCHANGED <<vars, lists, proc_args, answer, xy, out>>

\* The `?` operator: an Err leaves the enclosing function at once.
Propagates(res) == res # "Ok"

\* A try_for_each that stops at the two stop signals only.
DoStopsAtSignals(res) == res \in {"StopAll", "StopThisScript"}

\* Iterator::try_for_each stops at the first Err.
DoStops(res) == res # "Ok"

\* Statement::Do
ExecDo ==
  /\ CanExec("Do")
  /\ IF ctl.stmt.stmts = <<>>
     THEN Step(Ret("Ok"), stack)
     ELSE Step(Exec(ctl.sprite, ctl.stmt.stmts[1]),
               Push(Frame("Do", ctl.sprite, ctl.stmt, 1, Len(ctl.stmt.stmts))))
  /\ DataUnchanged

RetDo ==
  /\ Returning("Do")
  /\ IF DoStops(ctl.res) THEN Resume(ctl, Pop)
     ELSE IF Top.i < Len(Top.stmt.stmts)
     THEN Resume(Exec(Top.sprite, Top.stmt.stmts[Top.i + 1]),
                 ReplaceTop([Top EXCEPT !.i = Top.i + 1]))
     ELSE Resume(Ret("Ok"), Pop)
  /\ DataUnchanged

\* Statement::If
ExecIf ==
  /\ CanExec("If")
  /\ \E c \in {EvalExpr(proc_args, ctl.sprite, ctl.stmt.condition)} :
         IF ~c.ok THEN Step(Raise(c), stack)
         ELSE IF to_bool(c.v) THEN Step(Exec(ctl.sprite, ctl.stmt.if_true), stack)
         ELSE Step(Ret("Ok"), stack)
  /\ DataUnchanged

\* Statement::IfElse
ExecIfElse ==
  /\ CanExec("IfElse")
  /\ \E c \in {EvalExpr(proc_args, ctl.sprite, ctl.stmt.condition)} :
         IF ~c.ok THEN Step(Raise(c), stack)
         ELSE Step(Exec(ctl.sprite,
                        IF to_bool(c.v) THEN ctl.stmt.if_true
                        ELSE ctl.stmt.if_false), stack)
  /\ DataUnchanged

\* A rounding that drops the fraction.
FTrunc(x) ==
  IF x.k # "half" THEN x
  ELSE IF x.v > 0 THEN Fin(x.v \div 2)
  ELSE Fin(0 - ((0 - x.v) \div 2))

\* f64::round: to the nearest whole number, a half away from zero.
FRound(x) ==
  IF x.k # "half" THEN x
  ELSE IF x.v > 0 THEN Fin((x.v + 1) \div 2)
  ELSE Fin(0 - ((1 - x.v) \div 2))

\* f64::floor: the greatest whole number that is not greater.
FFloor(x) == IF x.k # "half" THEN x ELSE Fin((x.v - 1) \div 2)

\* f64::ceil: the least whole number that is not less.
FCeil(x) == IF x.k # "half" THEN x ELSE Fin((x.v + 1) \div 2)

\* `x as u64`: a saturating cast (u64::MAX as far as TLC's integers go).
AsU64(x) == AsUsize(x)

\* Statement::Repeat.  Frame: i = iterations started, n = their number, -1
\* for the `loop` of an infinite count.
ExecRepeat ==
  /\ CanExec("Repeat")
  /\ \E t \in {EvalExpr(proc_args, ctl.sprite, ctl.stmt.times)} :
     \E times \in {IF t.ok THEN FRound(to_num(t.v)) ELSE Fin(0)} :
         IF ~t.ok THEN Step(Raise(t), stack)
         ELSE IF FPositive(times)
         THEN Step(Exec(ctl.sprite, ctl.stmt.body),
                   Push(Frame("Repeat", ctl.sprite, ctl.stmt, 1,
                              IF times.k = "inf" THEN -1 ELSE AsU64(times))))
         ELSE Step(Ret("Ok"), stack)
  /\ DataUnchanged

\* A Repeat that reads its count again each time its body has run.
MoreRoundsReread(frame) ==
  \E t \in {EvalExpr(proc_args, frame.sprite, frame.stmt.times)} :
    /\ t.ok
    /\ \/ FRound(to_num(t.v)).k = "inf"
       \/ frame.i < AsU64(FRound(to_num(t.v)))

\* `for _ in 0..times as u64`, `loop` for an infinite count: another round
\* follows the frame's i-th.
MoreRounds(frame) == frame.n = -1 \/ frame.i < frame.n

RetRepeat ==
  /\ Returning("Repeat")
  /\ IF Propagates(ctl.res) THEN Resume(ctl, Pop)
     ELSE IF MoreRounds(Top)
     THEN Resume(Exec(Top.sprite, Top.stmt.body),
                 ReplaceTop([Top EXCEPT !.i = IF Top.n = -1 THEN 1 ELSE Top.i + 1]))
     ELSE Resume(Ret("Ok"), Pop)
  /\ DataUnchanged

\* Statement::Forever
ExecForever ==
  /\ CanExec("Forever")
  /\ Step(Exec(ctl.sprite, ctl.stmt.body),
          Push(Frame("Forever", ctl.sprite, ctl.stmt, 0, 0)))
  /\ DataUnchanged

RetForever ==
  /\ Returning("Forever")
  /\ IF Propagates(ctl.res) THEN Resume(ctl, Pop)
     ELSE Resume(Exec(Top.sprite, Top.stmt.body), stack)
  /\ DataUnchanged

\* Statement::Until: `while !cond { body }`
ExecUntil ==
  /\ CanExec("Until")
  /\ \E c \in {EvalExpr(proc_args, ctl.sprite, ctl.stmt.condition)} :
         IF ~c.ok THEN Step(Raise(c), stack)
         ELSE IF ~to_bool(c.v)
         THEN Step(Exec(ctl.sprite, ctl.stmt.body),
                   Push(Frame("Until", ctl.sprite, ctl.stmt, 0, 0)))
         ELSE Step(Ret("Ok"), stack)
  /\ DataUnchanged

RetUntil ==
  /\ Returning("Until")
  /\ \E c \in {EvalExpr(proc_args, Top.sprite, Top.stmt.condition)} :
         IF Propagates(ctl.res) THEN Resume(ctl, Pop)
         ELSE IF ~c.ok THEN Resume(Raise(c), Pop)
         ELSE IF ~to_bool(c.v) THEN Resume(Exec(Top.sprite, Top.stmt.body), stack)
         ELSE Resume(Ret("Ok"), Pop)
  /\ DataUnchanged

\* Statement::While: `while cond { body }`
ExecWhile ==
  /\ CanExec("While")
  /\ \E c \in {EvalExpr(proc_args, ctl.sprite, ctl.stmt.condition)} :
         IF ~c.ok THEN Step(Raise(c), stack)
         ELSE IF to_bool(c.v)
         THEN Step(Exec(ctl.sprite, ctl.stmt.body),
                   Push(Frame("While", ctl.sprite, ctl.stmt, 0, 0)))
         ELSE Step(Ret("Ok"), stack)
  /\ DataUnchanged

RetWhile ==
  /\ Returning("While")
  /\ \E c \in {EvalExpr(proc_args, Top.sprite, Top.stmt.condition)} :
         IF Propagates(ctl.res) THEN Resume(ctl, Pop)
         ELSE IF ~c.ok THEN Resume(Raise(c), Pop)
         ELSE IF to_bool(c.v) THEN Resume(Exec(Top.sprite, Top.stmt.body), stack)
         ELSE Resume(Ret("Ok"), Pop)
  /\ DataUnchanged

\* Statement::For: `for i in 1..=times as u64 { vars.insert(counter, i); body }`
ExecFor ==
  /\ CanExec("For")
  /\ \E t \in {EvalExpr(proc_args, ctl.sprite, ctl.stmt.times)} :
     \E n \in {IF t.ok THEN AsU64(FCeil(to_num(t.v))) ELSE 0} :
         IF ~t.ok THEN Step(Raise(t), stack) /\ vars' = vars
         ELSE IF n >= 1
         THEN /\ Step(Exec(ctl.sprite, ctl.stmt.body),
                      Push(Frame("For", ctl.sprite, ctl.stmt, 1, n)))
              /\ vars' = Insert(vars, ctl.stmt.counter_id, Num(Fin(1)))
         ELSE Step(Ret("Ok"), stack) /\ vars' = vars
  /\ UNCHANGED <<lists, proc_args, answer, xy, out>>

RetFor ==
  /\ Returning("For")
  /\ IF Propagates(ctl.res) THEN Resume(ctl, Pop) /\ vars' = vars
     ELSE IF Top.i < Top.n
     THEN /\ Resume(Exec(Top.sprite, Top.stmt.body),
                    ReplaceTop([Top EXCEPT !.i = Top.i + 1]))
          /\ vars' = Insert(vars, Top.stmt.counter_id, Num(Fin(Top.i + 1)))
     ELSE Resume(Ret("Ok"), Pop) /\ vars' = vars
  /\ UNCHANGED <<lists, proc_args, answer, xy, out>>

\* Statement::StopAll
ExecStopAll ==
  /\ CanExec("StopAll")
  /\ Step(Ret("StopAll"), stack)
  /\ DataUnchanged

\* Statement::StopThisScript
ExecStopThisScript ==
  /\ CanExec("StopThisScript")
  /\ Step(Ret("StopThisScript"), stack)
  /\ DataUnchanged

\* Statement::SetVariable
ExecSetVariable ==
  /\ CanExec("SetVariable")
  /\ \E v \in {EvalExpr(proc_args, ctl.sprite, ctl.stmt.value)} :
         IF ~v.ok THEN Step(Raise(v), stack) /\ vars' = vars
         ELSE Step(Ret("Ok"), stack) /\ vars' = Insert(vars, ctl.stmt.var_id, v.v)
  /\ UNCHANGED <<lists, proc_args, answer, xy, out>>

\* Statement::ChangeVariableBy
ExecChangeVariableBy ==
  /\ CanExec("ChangeVariableBy")
  /\ \E v \in {EvalExpr(proc_args, ctl.sprite, ctl.stmt.value)} :
     \E old \in {IF ctl.stmt.var_id \in DOMAIN vars
                 THEN to_num(vars[ctl.stmt.var_id]) ELSE Fin(0)} :
         IF ~v.ok THEN Step(Raise(v), stack) /\ vars' = vars
         ELSE /\ Step(Ret("Ok"), stack)
              /\ vars' = Insert(vars, ctl.stmt.var_id, Num(FAdd(old, to_num(v.v))))
  /\ UNCHANGED <<lists, proc_args, answer, xy, out>>

\* Statement::DeleteAllOfList
ExecDeleteAllOfList ==
  /\ CanExec("DeleteAllOfList")
  /\ Step(Ret("Ok"), stack)
  /\ lists' = Insert(lists, ctl.stmt.list_id, <<>>)
  /\ UNCHANGED <<vars, proc_args, answer, xy, out>>

\* A removal of the element after the i-th, i 0-based
RemoveAfter(lst, i) == SubSeq(lst, 1, i + 1) \o SubSeq(lst, i + 3, Len(lst))

\* Vec::remove(i), i 0-based
RemoveAt(lst, i) == SubSeq(lst, 1, i) \o SubSeq(lst, i + 2, Len(lst))

\* Statement::DeleteOfList
ExecDeleteOfList ==
  /\ CanExec("DeleteOfList")
  /\ \E index \in {EvalExpr(proc_args, ctl.sprite, ctl.stmt.index)} :
     \E id \in {ctl.stmt.list_id} :
     \E ix \in {IF index.ok THEN to_index(index.v) ELSE None} :
         IF ~index.ok THEN Step(Raise(index), stack) /\ lists' = lists
         ELSE /\ Step(Ret("Ok"), stack)
              /\ lists' =
                   IF id \notin DOMAIN lists \/ ~ix.some THEN lists
                   ELSE IF ix.v.i = "Nth"
                   THEN (IF ix.v.n < Len(lists[id])
                         THEN [lists EXCEPT ![id] = RemoveAt(@, ix.v.n)]
                         ELSE lists)
                   ELSE (IF lists[id] # <<>>
                         THEN [lists EXCEPT ![id] = Front(@)]
                         ELSE lists)
  /\ UNCHANGED <<vars, proc_args, answer, xy, out>>

\* Statement::AddToList
ExecAddToList ==
  /\ CanExec("AddToList")
  /\ \E item \in {EvalExpr(proc_args, ctl.sprite, ctl.stmt.item)} :
     \E id \in {ctl.stmt.list_id} :
         IF ~item.ok THEN Step(Raise(item), stack) /\ lists' = lists
         ELSE /\ Step(Ret("Ok"), stack)
              /\ lists' = Insert(lists, id,
                                 Append(IF id \in DOMAIN lists THEN lists[id]
                                        ELSE <<>>, item.v))
  /\ UNCHANGED <<vars, proc_args, answer, xy, out>>

\* A slot lookup that takes the last slot for an index past the end.
SlotOrLast(lst, ix) ==
  IF lst = <<>> THEN None
  ELSE IF ix.i = "Nth" /\ ix.n < Len(lst) THEN Some(ix.n + 1)
  ELSE Some(Len(lst))

\* `match index { Nth(i) => lst.get_mut(i), Last => lst.last_mut() }`: the
\* position of the slot, 1-based, if the list has it.
SlotOf(lst, ix) ==
  IF ix.i = "Nth" THEN (IF ix.n < Len(lst) THEN Some(ix.n + 1) ELSE None)
  ELSE (IF lst # <<>> THEN Some(Len(lst)) ELSE None)

\* The closure of Statement::ReplaceItemOfList, given lists.get_mut(list_id)
\* and index.to_index()
ReplaceSlot(lst, slot, item) ==
  IF slot.some THEN [lst EXCEPT ![slot.v] = item] ELSE lst

\* Statement::ReplaceItemOfList
ExecReplaceItemOfList ==
  /\ CanExec("ReplaceItemOfList")
  /\ \E index \in {EvalExpr(proc_args, ctl.sprite, ctl.stmt.index)} :
     \E item \in {IF index.ok THEN EvalExpr(proc_args, ctl.sprite, ctl.stmt.item)
                  ELSE index} :
     \E id \in {ctl.stmt.list_id} :
     \E ix \in {IF index.ok THEN to_index(index.v) ELSE None} :
         IF ~index.ok THEN Step(Raise(index), stack) /\ lists' = lists
         ELSE IF ~item.ok THEN Step(Raise(item), stack) /\ lists' = lists
         ELSE /\ Step(Ret("Ok"), stack)
              /\ lists' =
                   IF id \notin DOMAIN lists \/ ~ix.some THEN lists
                   ELSE [lists EXCEPT
                           ![id] = ReplaceSlot(@, SlotOf(@, ix.v), item.v)]
  /\ UNCHANGED <<vars, proc_args, answer, xy, out>>

\* ---------------------------------------------------------------- ProcCall

\* "\x1b[2J\x1b[H"
ClearAndHome == <<"ESC", "[", "2", "J", "ESC", "[", "H">>

ReservedProccodes == {"putchar %s", "print %s", "println %s", "term-clear"}

\* A ProcCall that hands the body's result on as it is.
ProcCallNoCatch(res) == res

\* `match self.run_statement(sprite, &proc.body) { Err(StopThisScript) =>
\* Ok(()), res => res }` in Statement::ProcCall
ProcCallCatch(res) == IF res = "StopThisScript" THEN "Ok" ELSE res

\* entry(name).or_insert_with(Vec::new).push(v)
PushArg(pa, name, v) ==
  Insert(pa, name, Append(IF name \in DOMAIN pa THEN pa[name] ELSE <<>>, v))

\* The loop `for (id, arg) in args { eval_expr(arg)?; push }` from its k-th
\* pair on: the proc_args it leaves and how it ended ("Ok", an Err, "panic").
RECURSIVE PushArgs(_, _, _, _, _)

\* One iteration of the loop, given the evaluated argument `a`.
PushEvaluated(a, pa, spr, proc, args, k) ==
  IF ~a.ok THEN [pa |-> pa, res |-> a.err]
  ELSE IF args[k].id \notin DOMAIN proc.arg_names_by_id
  THEN [pa |-> pa, res |-> "panic"]
  ELSE PushArgs(PushArg(pa, proc.arg_names_by_id[args[k].id], a.v),
                spr, proc, args, k + 1)

PushArgs(pa, spr, proc, args, k) ==
  IF k > Len(args) THEN [pa |-> pa, res |-> "Ok"]
  ELSE PushEvaluated(EvalExpr(pa, spr, args[k].expr), pa, spr, proc, args, k)

\* `if let Some(stack) = proc_args.get_mut(name) { stack.pop(); }`
PopArg(pa, name) ==
  IF name \in DOMAIN pa /\ pa[name] # <<>> THEN [pa EXCEPT ![name] = Front(@)]
  ELSE pa

\* The loop `for id in args.keys() { ... stack.pop() }` from its k-th key on.
RECURSIVE PopArgs(_, _, _, _)
PopArgs(pa, proc, args, k) ==
  IF k > Len(args) THEN pa
  ELSE PopArgs(PopArg(pa, proc.arg_names_by_id[args[k].id]), proc, args, k + 1)

CustomProcs(spr) == Sprites[spr].custom_procs

\* Statement::ProcCall on a proccode the sprite has no custom procedure for:
\* `.expect("called non-existent custom procedure")` panics.
ExecProcCallMissing ==
  /\ CanExec("ProcCall")
  /\ ctl.stmt.proccode \notin DOMAIN CustomProcs(ctl.sprite)
  /\ Step(Panic, stack)
  /\ DataUnchanged

\* Statement::ProcCall on a reserved proccode.  stdout accepts every write.
ExecProcCallReserved ==
  /\ CanExec("ProcCall")
  /\ ctl.stmt.proccode \in DOMAIN CustomProcs(ctl.sprite)
  /\ ctl.stmt.proccode \in ReservedProccodes
  /\ \E args \in {ctl.stmt.args} :
     \E s \in {IF args # <<>> THEN EvalExpr(proc_args, ctl.sprite, args[1].expr)
               ELSE OkV(DefaultValue)} :
         IF ctl.stmt.proccode = "term-clear"
         THEN Step(Ret("Ok"), stack) /\ out' = Append(out, ClearAndHome)
         ELSE IF args = <<>> THEN Step(Ret("Ok"), stack) /\ out' = out
         ELSE IF ~s.ok THEN Step(Raise(s), stack) /\ out' = out
         ELSE Step(Ret("Ok"), stack) /\ out' = Append(out, to_string(s.v))
  /\ UNCHANGED <<vars, lists, proc_args, answer, xy>>

\* Statement::ProcCall on a custom procedure: push the arguments, run the body.
ExecProcCall ==
  /\ CanExec("ProcCall")
  /\ ctl.stmt.proccode \in DOMAIN CustomProcs(ctl.sprite)
  /\ ctl.stmt.proccode \notin ReservedProccodes
  /\ \E proc \in {CustomProcs(ctl.sprite)[ctl.stmt.proccode]} :
     \E pushed \in {PushArgs(proc_args, ctl.sprite, proc, ctl.stmt.args, 1)} :
         /\ proc_args' = pushed.pa
         /\ IF pushed.res = "panic" THEN Step(Panic, stack)
            ELSE IF pushed.res # "Ok" THEN Step(Ret(pushed.res), stack)
            ELSE Step(Exec(ctl.sprite, proc.body),
                      Push([Frame("ProcCall", ctl.sprite, ctl.stmt, 0, 0)
                            EXCEPT !.saved = Depths(proc_args)]))
  /\ UNCHANGED <<vars, lists, answer, xy, out>>

\* The body of a custom procedure returned.
RetProcCall ==
  /\ Returning("ProcCall")
  /\ \E res \in {ProcCallCatch(ctl.res)} :
     \E proc \in {CustomProcs(Top.sprite)[Top.stmt.proccode]} :
         IF Propagates(res) THEN Resume(Ret(res), Pop) /\ proc_args' = proc_args
         ELSE /\ Resume(Ret("Ok"), Pop)
              /\ proc_args' = PopArgs(proc_args, proc, Top.stmt.args, 1)
  /\ UNCHANGED <<vars, lists, answer, xy, out>>

\* ---------------------------------------------------------------- builtins

\* Lines that stdin may deliver to sensing_askandwait.
StdinLines == {<<>>, <<" ", "7", " ">>}

NoOpOpcodes == {"pen_clear", "pen_stamp", "looks_show", "looks_hide",
                "looks_setsizeto", "looks_switchcostumeto"}

\* The outcome of a statement opcode other than event_broadcastandwait and
\* sensing_askandwait is a record [res, xy, out].  res: "Ok", an Err, or
\* "panic" for the unwrap() of a missing input.
Same(res) == [res |-> res, xy |-> xy, out |-> out]

\* A motion that moves the first sprite, whichever sprite runs the script.
MoveFirst(spr, x, y) ==
  [res |-> "Ok", xy |-> [xy EXCEPT ![1] = [x |-> x, y |-> y]], out |-> out]

\* sprite.x.set(x); sprite.y.set(y)
MoveTo(spr, x, y) ==
  [res |-> "Ok", xy |-> [xy EXCEPT ![spr] = [x |-> x, y |-> y]], out |-> out]

\* "motion_gotoxy", given its evaluated inputs
GotoXY(spr, x, y) ==
  IF ~x.ok THEN Same(x.err)
  ELSE IF ~y.ok THEN Same(y.err)
  ELSE MoveTo(spr, to_num(x.v), to_num(y.v))

\* "motion_setx", "motion_sety", "motion_changexby", "motion_changeyby",
\* given the evaluated input
MoveOne(spr, opcode, d) ==
  IF ~d.ok THEN Same(d.err)
  ELSE CASE opcode = "motion_setx" -> MoveTo(spr, to_num(d.v), xy[spr].y)
         [] opcode = "motion_sety" -> MoveTo(spr, xy[spr].x, to_num(d.v))
         [] opcode = "motion_changexby" ->
              MoveTo(spr, FAdd(xy[spr].x, to_num(d.v)), xy[spr].y)
         [] opcode = "motion_changeyby" ->
              MoveTo(spr, xy[spr].x, FAdd(xy[spr].y, to_num(d.v)))

\* "looks_say", given the evaluated message
SayMessage(m) ==
  IF ~m.ok THEN Same(m.err)
  ELSE [res |-> "Ok", xy |-> xy, out |-> Append(out, to_string(m.v))]

\* "control_wait", given the evaluated duration
WaitFor(d) == IF ~d.ok THEN Same(d.err) ELSE Same("Ok")

\* The input a single-input opcode reads.
InputName(opcode) ==
  CASE opcode = "motion_setx" -> "X"
    [] opcode = "motion_sety" -> "Y"
    [] opcode = "motion_changexby" -> "DX"
    [] opcode = "motion_changeyby" -> "DY"
    [] opcode = "looks_say" -> "MESSAGE"
    [] opcode = "control_wait" -> "DURATION"

BuiltinOutcome(spr, opcode, inputs) ==
  CASE opcode = "motion_gotoxy" ->
         GotoXY(spr, Input(proc_args, spr, inputs, "X"),
                Input(proc_args, spr, inputs, "Y"))
    [] opcode \in {"motion_setx", "motion_sety", "motion_changexby",
                   "motion_changeyby"} ->
         MoveOne(spr, opcode, Input(proc_args, spr, inputs, InputName(opcode)))
    [] opcode \in NoOpOpcodes -> Same("Ok")
    [] opcode = "looks_say" ->
         SayMessage(Input(proc_args, spr, inputs, InputName(opcode)))
    [] opcode = "control_wait" ->
         WaitFor(Input(proc_args, spr, inputs, InputName(opcode)))
    [] OTHER -> Same("UnknownOpcode")

ResultCtl(res) == IF res = "panic" THEN Panic ELSE Ret(res)

\* VM::call_builtin_statement, every opcode but the two below
ExecBuiltin ==
  /\ CanExec("Builtin")
  /\ ctl.stmt.opcode \notin {"event_broadcastandwait", "sensing_askandwait"}
  /\ \E o \in {BuiltinOutcome(ctl.sprite, ctl.stmt.opcode, ctl.stmt.inputs)} :
         /\ Step(ResultCtl(o.res), stack)
         /\ xy' = o.xy
         /\ out' = o.out
  /\ UNCHANGED <<vars, lists, proc_args, answer>>

\* call_builtin_statement: "sensing_askandwait" (stdin delivers a line)
ExecAskAndWait ==
  /\ CanExec("Builtin")
  /\ ctl.stmt.opcode = "sensing_askandwait"
  /\ \E q \in {Input(proc_args, ctl.sprite, ctl.stmt.inputs, "QUESTION")} :
         IF ~q.ok THEN Step(Raise(q), stack) /\ UNCHANGED <<out, answer>>
         ELSE \E line \in StdinLines :
                /\ Step(Ret("Ok"), stack)
                /\ out' = Append(out, to_string(q.v))
                /\ answer' = Trim(line)
  /\ UNCHANGED <<vars, lists, proc_args, xy>>

\* call_builtin_statement: "event_broadcastandwait", up to its loops.  The
\* Broadcast frame holds the name and the position (i, n) of the receiver
\* that ran last; BroadcastRecv and BroadcastReturn are the loops.
ExecBroadcast ==
  /\ CanExec("Builtin")
  /\ ctl.stmt.opcode = "event_broadcastandwait"
  /\ \E b \in {Input(proc_args, ctl.sprite, ctl.stmt.inputs, "BROADCAST_INPUT")} :
         IF ~b.ok THEN Step(Raise(b), stack)
         ELSE StepR(Ret("Ok"),
                    Push([Frame("Broadcast", ctl.sprite, ctl.stmt, 1, 0)
                          EXCEPT !.name = to_string(b.v)]),
                    "none")
  /\ DataUnchanged

\* run_proc is entered on the proc at <<si, pi>>: its body runs as sprite si.
EnterProc(ev, pos) ==
  /\ ctl' = Exec(pos[1], Sprites[pos[1]].procs[pos[2]].body)
  /\ stack' = Append(ReplaceTop([Top EXCEPT !.i = pos[1], !.n = pos[2]]),
                     Frame("RunProc", pos[1], NoStmt, 0, 0))
  /\ trace' = Append(trace, Entry(ev, pos[1], NoStmt, pos, "none"))
  /\ UNCHANGED <<mainpc, exitCode, stderr, project, blocks, lowered>>
  /\ UNCHANGED vars_value

\* The broadcast's loops reach the next receiver.
BroadcastRecv ==
  /\ Returning("Broadcast")
  /\ ~Propagates(ctl.res)
  /\ Len(trace) < MaxSteps
  /\ \E pos \in {NextReceiver(Sprites, Top.i, Top.n, Top.name)} :
         pos # <<0, 0>> /\ EnterProc("recv", pos)
  /\ DataUnchanged

\* The broadcast's loops end: a receiver returned Err (`?`), or none is left.
BroadcastReturn ==
  /\ Returning("Broadcast")
  /\ \/ Propagates(ctl.res) /\ Resume(ctl, Pop)
     \/ /\ ~Propagates(ctl.res)
        /\ NextReceiver(Sprites, Top.i, Top.n, Top.name) = <<0, 0>>
        /\ Resume(Ret("Ok"), Pop)
  /\ DataUnchanged

\* A run_proc that hands the body's result on as it is.
RunProcNoCatch(res) == res

\* VM::run_proc: `match run_statement(body) { Err(StopThisScript) => Ok(()),
\* res => res }`
RunProcCatch(res) == IF res = "StopThisScript" THEN "Ok" ELSE res

RetRunProc ==
  /\ Returning("RunProc")
  /\ Resume(Ret(RunProcCatch(ctl.res)), Pop)
  /\ DataUnchanged

\* A run() that hands the hats' result on as it is.
RunNoCatch(res) == res

\* VM::run: `match res { Err(StopAll) => Ok(()), res => res }`
RunCatch(res) == IF res = "StopAll" THEN "Ok" ELSE res

\* main calls vm.run(): the loops over sprites and procs start.
RunStart ==
  /\ mainpc = "run"
  /\ ctl.mode = "idle"
  /\ ctl' = Ret("Ok")
  /\ stack' = <<Frame("Run", 0, NoStmt, 1, 0)>>
  /\ UNCHANGED <<mainpc, exitCode, stderr, project, blocks, lowered, trace>>
  /\ UNCHANGED vars_value
  /\ DataUnchanged

\* run()'s loops reach the next green-flag hat.
RunHat ==
  /\ Returning("Run")
  /\ ~Propagates(ctl.res)
  /\ Len(trace) < MaxSteps
  /\ \E pos \in {NextFlagHat(Sprites, Top.i, Top.n)} :
         pos # <<0, 0>> /\ EnterProc("hat", pos)
  /\ DataUnchanged

\* run() returns: a hat returned Err (`?`), or no hat is left.
RunFinish ==
  /\ Returning("Run")
  /\ \/ Propagates(ctl.res) /\ Resume(Done(RunCatch(ctl.res)), <<>>)
     \/ /\ ~Propagates(ctl.res)
        /\ NextFlagHat(Sprites, Top.i, Top.n) = <<0, 0>>
        /\ Resume(Done(RunCatch("Ok")), <<>>)
  /\ DataUnchanged

\* ------------------------------------------------------------ lowering

\* serde_json::Value
JNull == [j |-> "null"]

JStr(x) == [j |-> "str", s |-> x]

JNum(n) == [j |-> "num", n |-> n]

JArr(a) == [j |-> "arr", a |-> a]

\* deser.rs: Block.  inputs and fields: <<[name, json], ...>> in the
\* HashMap's iteration order; mutation: None or Some([proccode |-> Option]).
Block(opcode, next, inputs, fields, mutation) ==
  [opcode |-> opcode, next |-> next, inputs |-> inputs, fields |-> fields,
   mutation |-> mutation]

Pair(name, json) == [name |-> name, json |-> json]

\* HashMap::get on a map kept as a sequence of pairs
Lookup(pairs, name) ==
  IF \E i \in 1..Len(pairs) : pairs[i].name = name
  THEN Some(pairs[CHOOSE i \in 1..Len(pairs) : pairs[i].name = name].json)
  ELSE None

\* DeResult<T>: OkV(x), or ErrV of "NonExsistentID" | "MissingInput" |
\* "MissingMutation"; ErrV("panic") for expect() and todo!(), and
\* ErrV("diverge") for a walk that never ends.
DeErrors == {"NonExsistentID", "MissingInput", "MissingMutation"}

\* DeCtx::get
get(blks, id) ==
  IF id \in DOMAIN blks THEN OkV(blks[id]) ELSE ErrV("NonExsistentID")

\* fn get_rep
get_rep(json) ==
  IF json.j = "arr" /\ Len(json.a) >= 2 /\ json.a[1].j = "num"
  THEN Some(json.a[2]) ELSE None

\* Option::and_then(get_rep)
AndThenGetRep(o) == IF o.some THEN get_rep(o.v) ELSE None

\* `match &arr[..] { [Json::String(_), Json::String(id)] => Ok(id), _ => todo!() }`
VarListArr(a) ==
  IF Len(a) = 2 /\ a[1].j = "str" /\ a[2].j = "str" THEN OkV(a[2].s)
  ELSE ErrV("panic")

\* `match &arr[..] { [Json::String(s), Json::Null] => Ok(s), _ => todo!() }`
StrArr(a) ==
  IF Len(a) = 2 /\ a[1].j = "str" /\ a[2].j = "null" THEN OkV(a[1].s)
  ELSE ErrV("panic")

\* fields.get(name).and_then(Json::as_array).expect("invalid field")
FieldArr(f) == IF f.some /\ f.v.j = "arr" THEN OkV(f.v.a) ELSE ErrV("panic")

AndThenVarList(a) == IF a.ok THEN VarListArr(a.v) ELSE a

AndThenStr(a) == IF a.ok THEN StrArr(a.v) ELSE a

\* fn var_list_field
var_list_field(block, name) == AndThenVarList(FieldArr(Lookup(block.fields, name)))

\* fn str_field
str_field(block, name) == AndThenStr(FieldArr(Lookup(block.fields, name)))

\* serde_json::from_str::<f64> on a string of the model: a JSON integer.
JsonDigits(d) == AllDigits(d) /\ (Len(d) = 1 \/ d[1] # "0")

JsonNumber(str) ==
  IF str # <<>> /\ str[1] = "-"
  THEN (IF JsonDigits(Tail(str)) THEN OkV(Fin(0 - DigitsValue(Tail(str), 0)))
        ELSE ErrV("panic"))
  ELSE (IF JsonDigits(str) THEN OkV(Fin(DigitsValue(str, 0))) ELSE ErrV("panic"))

\* str::parse::<u64>() as f64
ParseU64(str) ==
  IF str # <<>> /\ str[1] = "+"
  THEN (IF AllDigits(Tail(str)) THEN OkV(Fin(DigitsValue(Tail(str), 0)))
        ELSE ErrV("panic"))
  ELSE (IF AllDigits(str) THEN OkV(Fin(DigitsValue(str, 0))) ELSE ErrV("panic"))

LitNum(r) == IF r.ok THEN OkV(Lit(Num(r.v))) ELSE r

\* build_expr's match on the array of a literal
build_literal(arr) ==
  IF Len(arr) = 2 /\ arr[1] \in {JNum(4), JNum(5)}
  THEN (IF arr[2].j = "str" THEN LitNum(JsonNumber(arr[2].s)) ELSE ErrV("panic"))
  ELSE IF Len(arr) = 2 /\ arr[1] = JNum(6)
  THEN (IF arr[2].j = "str" THEN LitNum(ParseU64(arr[2].s)) ELSE ErrV("panic"))
  ELSE IF Len(arr) = 2 /\ arr[1] = JNum(10)
  THEN (IF arr[2].j = "str" THEN OkV(Lit(Str(arr[2].s))) ELSE ErrV("panic"))
  ELSE IF Len(arr) = 3 /\ arr[1] = JNum(12) /\ arr[2].j = "str" /\ arr[3].j = "str"
  THEN OkV(GetVar(arr[3].s))
  ELSE ErrV("panic")

MathOperators == {"abs", "floor", "ceiling", "sqrt", "sin", "cos", "tan", "asin",
                  "acos", "atan", "ln", "log", "e ^", "10 ^"}

\* Expr::Abs(num), Expr::Floor(num), ...
MathOp(operator, num) == [e |-> "MathOp", operator |-> operator, num |-> num]

RECURSIVE build_expr(_, _, _)
RECURSIVE build_funcall(_, _, _)
RECURSIVE build_inputs(_, _, _, _)
RECURSIVE build_statement(_, _, _)

\* DeCtx::input
input(blks, block, name, fuel) ==
  IF Lookup(block.inputs, name).some
  THEN build_expr(blks, Lookup(block.inputs, name).v, fuel)
  ELSE ErrV("MissingInput")

\* build_expr, given get_rep(json)
build_rep(blks, r, fuel) ==
  IF ~r.some THEN ErrV("panic")
  ELSE IF r.v.j = "str" THEN build_funcall(blks, r.v.s, fuel)
  ELSE IF r.v.j = "arr" THEN build_literal(r.v.a)
  ELSE ErrV("panic")

\* DeCtx::build_expr.  fuel: the nesting the walk may still enter; running
\* out means the blocks nest in a cycle.
build_expr(blks, json, fuel) == build_rep(blks, get_rep(json), fuel)

\* One more (name, expr) for the collected map of inputs.
CollectInput(e, name, rest) ==
  IF ~e.ok THEN e
  ELSE IF ~rest.ok THEN rest
  ELSE OkV(Insert(rest.v, name, e.v))

\* `block.inputs.iter().map(|(id, b)| Ok((id, build_expr(b)?))).collect()`
\* from the k-th pair on, as a map from names to expressions.
build_inputs(blks, pairs, k, fuel) ==
  IF k > Len(pairs) THEN OkV(EmptyMap)
  ELSE CollectInput(build_expr(blks, pairs[k].json, fuel), pairs[k].name,
                    build_inputs(blks, pairs, k + 1, fuel))

\* The same, as the sequence of (id, expr) pairs of a ProcCall.
RECURSIVE build_args(_, _, _, _)

CollectArg(e, id, rest) ==
  IF ~e.ok THEN e
  ELSE IF ~rest.ok THEN rest
  ELSE OkV(<<Arg(id, e.v)>> \o rest.v)

build_args(blks, pairs, k, fuel) ==
  IF k > Len(pairs) THEN OkV(<<>>)
  ELSE CollectArg(build_expr(blks, pairs[k].json, fuel), pairs[k].name,
                  build_args(blks, pairs, k + 1, fuel))

ItemOfListExpr(index, list_id) ==
  IF ~index.ok THEN index
  ELSE IF ~list_id.ok THEN list_id
  ELSE OkV(ItemOfList(list_id.v, index.v))

MathOpExpr(operator, num) ==
  IF ~operator.ok THEN operator
  ELSE IF ~num.ok THEN num
  ELSE IF operator.v \in MathOperators THEN OkV(MathOp(operator.v, num.v))
  ELSE ErrV("panic")

ProcArgExpr(name) == IF name.ok THEN OkV(ProcArg(name.v)) ELSE name

LengthOfListExpr(list_id) == IF list_id.ok THEN OkV(LengthOfList(list_id.v)) ELSE list_id

CallExpr(opcode, inputs) == IF inputs.ok THEN OkV(Call(opcode, inputs.v)) ELSE inputs

\* build_funcall's match on the block's opcode
build_funcall_block(blks, block, fuel) ==
  CASE block.opcode = "argument_reporter_string_number" ->
         ProcArgExpr(str_field(block, "VALUE"))
    [] block.opcode = "data_itemoflist" ->
         ItemOfListExpr(input(blks, block, "INDEX", fuel), var_list_field(block, "LIST"))
    [] block.opcode = "data_lengthoflist" ->
         LengthOfListExpr(var_list_field(block, "LIST"))
    [] block.opcode = "operator_mathop" ->
         MathOpExpr(str_field(block, "OPERATOR"), input(blks, block, "NUM", fuel))
    [] OTHER ->
         IF block.fields # <<>> THEN ErrV("panic")
         ELSE CallExpr(block.opcode, build_inputs(blks, block.inputs, 1, fuel))

FuncallOf(blks, b, fuel) == IF b.ok THEN build_funcall_block(blks, b.v, fuel) ELSE b

\* DeCtx::build_funcall
build_funcall(blks, id, fuel) ==
  IF fuel = 0 THEN ErrV("diverge") ELSE FuncallOf(blks, get(blks, id), fuel - 1)

\* A substack that asks for its input as DeCtx::input does.
substack_required(blks, r, fuel) ==
  IF ~r.some THEN ErrV("MissingInput")
  ELSE IF r.v.j = "str" THEN build_statement(blks, r.v.s, fuel)
  ELSE ErrV("panic")

\* DeCtx::substack, given inputs.get(name).and_then(get_rep)
substack_rep(blks, r, fuel) ==
  IF ~r.some \/ r.v.j = "null" THEN OkV(Do(<<>>))
  ELSE IF r.v.j = "str" THEN build_statement(blks, r.v.s, fuel)
  ELSE ErrV("panic")

\* DeCtx::substack
substack(blks, block, name, fuel) ==
  substack_rep(blks, AndThenGetRep(Lookup(block.inputs, name)), fuel)

\* Two and three parts of a statement, each built with `?`, in the order
\* the code builds them.
Seq2(a, b) == IF ~a.ok THEN a ELSE b

Seq3(a, b, c) == IF ~a.ok THEN a ELSE IF ~b.ok THEN b ELSE c

IfStmt(c, t) == IF c.ok /\ t.ok THEN OkV(If(c.v, t.v)) ELSE Seq2(c, t)

IfElseStmt(c, t, f) ==
  IF c.ok /\ t.ok /\ f.ok THEN OkV(IfElse(c.v, t.v, f.v)) ELSE Seq3(c, t, f)

RepeatStmt(n, b) == IF n.ok /\ b.ok THEN OkV(Repeat(n.v, b.v)) ELSE Seq2(n, b)

ForeverStmt(b) == IF b.ok THEN OkV(Forever(b.v)) ELSE b

UntilStmt(c, b) == IF c.ok /\ b.ok THEN OkV(Until(c.v, b.v)) ELSE Seq2(c, b)

WhileStmt(c, b) == IF c.ok /\ b.ok THEN OkV(While(c.v, b.v)) ELSE Seq2(c, b)

ForStmt(id, n, b) ==
  IF id.ok /\ n.ok /\ b.ok THEN OkV(For(id.v, n.v, b.v)) ELSE Seq3(id, n, b)

\* mutation.proccode.expect("missing proccode for custom block")
Proccode(mutation) ==
  IF mutation.v.proccode.some THEN OkV(mutation.v.proccode.v) ELSE ErrV("panic")

ProcCallStmt(proccode, args) ==
  IF proccode.ok /\ args.ok THEN OkV(ProcCall(proccode.v, args.v))
  ELSE Seq2(proccode, args)

DeleteAllOfListStmt(id) == IF id.ok THEN OkV(DeleteAllOfList(id.v)) ELSE id

DeleteOfListStmt(id, index) ==
  IF id.ok /\ index.ok THEN OkV(DeleteOfList(id.v, index.v)) ELSE Seq2(id, index)

AddToListStmt(id, item) ==
  IF id.ok /\ item.ok THEN OkV(AddToList(id.v, item.v)) ELSE Seq2(id, item)

ReplaceItemOfListStmt(id, index, item) ==
  IF id.ok /\ index.ok /\ item.ok THEN OkV(ReplaceItemOfList(id.v, index.v, item.v))
  ELSE Seq3(id, index, item)

SetVariableStmt(id, value) ==
  IF id.ok /\ value.ok THEN OkV(SetVariable(id.v, value.v)) ELSE Seq2(id, value)

ChangeVariableByStmt(id, value) ==
  IF id.ok /\ value.ok THEN OkV(ChangeVariableBy(id.v, value.v)) ELSE Seq2(id, value)

StopStmt(option) ==
  IF ~option.ok THEN option
  ELSE IF option.v = "all" THEN OkV(StopAll)
  ELSE IF option.v = "this script" THEN OkV(StopThisScript)
  ELSE ErrV("panic")

\* Statement::Regular { opcode, inputs }: what the VM runs as a Builtin.
RegularStmt(opcode, inputs) ==
  IF inputs.ok THEN OkV(Builtin(opcode, inputs.v)) ELSE inputs

\* DeCtx::build_single_statement
build_single_statement(blks, block, fuel) ==
  CASE block.opcode = "control_if" ->
         IfStmt(input(blks, block, "CONDITION", fuel),
                substack(blks, block, "SUBSTACK", fuel))
    [] block.opcode = "control_if_else" ->
         IfElseStmt(input(blks, block, "CONDITION", fuel),
                    substack(blks, block, "SUBSTACK", fuel),
                    substack(blks, block, "SUBSTACK2", fuel))
    [] block.opcode = "control_repeat" ->
         RepeatStmt(input(blks, block, "TIMES", fuel),
                    substack(blks, block, "SUBSTACK", fuel))
    [] block.opcode = "control_forever" ->
         ForeverStmt(substack(blks, block, "SUBSTACK", fuel))
    [] block.opcode = "control_repeat_until" ->
         UntilStmt(input(blks, block, "CONDITION", fuel),
                   substack(blks, block, "SUBSTACK", fuel))
    [] block.opcode = "control_while" ->
         WhileStmt(input(blks, block, "CONDITION", fuel),
                   substack(blks, block, "SUBSTACK", fuel))
    [] block.opcode = "control_for_each" ->
         ForStmt(var_list_field(block, "VARIABLE"),
                 input(blks, block, "VALUE", fuel),
                 substack(blks, block, "SUBSTACK", fuel))
    [] block.opcode = "procedures_call" ->
         IF ~block.mutation.some THEN ErrV("MissingMutation")
         ELSE ProcCallStmt(Proccode(block.mutation),
                           build_args(blks, block.inputs, 1, fuel))
    [] block.opcode = "data_deletealloflist" ->
         DeleteAllOfListStmt(var_list_field(block, "LIST"))
    [] block.opcode = "data_deleteoflist" ->
         DeleteOfListStmt(var_list_field(block, "LIST"),
                          input(blks, block, "INDEX", fuel))
    [] block.opcode = "data_addtolist" ->
         AddToListStmt(var_list_field(block, "LIST"), input(blks, block, "ITEM", fuel))
    [] block.opcode = "data_replaceitemoflist" ->
         ReplaceItemOfListStmt(var_list_field(block, "LIST"),
                               input(blks, block, "INDEX", fuel),
                               input(blks, block, "ITEM", fuel))
    [] block.opcode = "data_setvariableto" ->
         SetVariableStmt(var_list_field(block, "VARIABLE"),
                         input(blks, block, "VALUE", fuel))
    [] block.opcode = "data_changevariableby" ->
         ChangeVariableByStmt(var_list_field(block, "VARIABLE"),
                              input(blks, block, "VALUE", fuel))
    [] block.opcode = "control_stop" -> StopStmt(str_field(block, "STOP_OPTION"))
    [] OTHER ->
         IF block.fields # <<>> THEN ErrV("panic")
         ELSE RegularStmt(block.opcode, build_inputs(blks, block.inputs, 1, fuel))

\* The loop `while let Some(curr) = pending { blocks.push(..?); pending =
\* .. }` of build_statement with `curr` the block to lower and `acc` the
\* statements pushed so far.  left: the blocks the walk may still visit; a
\* chain longer than the block map goes round in a cycle and never ends.
RECURSIVE ChainLoop(_, _, _, _, _)

\* The rest of one iteration, given the lowered block
ChainPush(st, blks, curr, acc, left, fuel) ==
  IF ~st.ok THEN st
  ELSE IF ~curr.next.some THEN OkV(Do(Append(acc, st.v)))
  ELSE IF curr.next.v \notin DOMAIN blks THEN ErrV("NonExsistentID")
  ELSE ChainLoop(blks, blks[curr.next.v], Append(acc, st.v), left - 1, fuel)

ChainLoop(blks, curr, acc, left, fuel) ==
  IF left = 0 THEN ErrV("diverge")
  ELSE ChainPush(build_single_statement(blks, curr, fuel), blks, curr, acc, left, fuel)

\* A build_statement that lowers the first block only.
build_first_only(blks, block, fuel) == build_single_statement(blks, block, fuel)

\* build_statement after `let block = self.get(id)?`
build_statement_at(blks, block, fuel) ==
  IF block.next.some
  THEN ChainLoop(blks, block, <<>>, Cardinality(DOMAIN blks) + 1, fuel)
  ELSE build_single_statement(blks, block, fuel)

StatementOf(blks, b, fuel) == IF b.ok THEN build_statement_at(blks, b.v, fuel) ELSE b

\* DeCtx::build_statement
build_statement(blks, id, fuel) ==
  IF fuel = 0 THEN ErrV("diverge") ELSE StatementOf(blks, get(blks, id), fuel - 1)

\* ------------------------------------------------------------------ inputs

\* No function of Value has been applied yet.
NotComputed == [op |-> "none"]

\* Nothing has been lowered yet.
NotLowered == [done |-> FALSE, id |-> "", res |-> ErrV("none")]

BlockIds == <<"b1", "b2", "b3", "b4", "b5", "b6", "b7", "b8">>

Ids == {BlockIds[i] : i \in 1..MaxBlocks}

IndexOf(id) == CHOOSE i \in 1..Len(BlockIds) : BlockIds[i] = id

\* What a `next` may hold: nothing, the id of a block, an id of no block.
NextTargets == {None, Some("missing")} \cup {Some(id) : id \in Ids}

\* The i-th block of a block map: a data_deletealloflist of its own list, a
\* control_stop, a looks_say (or, if ~good, a procedures_call that lacks its
\* mutation), a control_forever around the chain of b1, and so on in turn.
BlockOf(i, nxt, good) ==
  CASE i % 4 = 1 ->
         Block("data_deletealloflist", nxt, <<>>,
               <<Pair("LIST", JArr(<<JStr("list"), JStr(BlockIds[i])>>))>>, None)
    [] i % 4 = 2 ->
         Block("control_stop", nxt, <<>>,
               <<Pair("STOP_OPTION", JArr(<<JStr("all"), JNull>>))>>, None)
    [] i % 4 = 3 ->
         IF good
         THEN Block("looks_say", nxt,
                    <<Pair("MESSAGE",
                           JArr(<<JNum(1), JArr(<<JNum(10), JStr(<<"h", "i">>)>>)>>))>>,
                    <<>>, None)
         ELSE Block("procedures_call", nxt, <<>>, <<>>, None)
    [] i % 4 = 0 ->
         Block("control_forever", nxt,
               <<Pair("SUBSTACK", JArr(<<JNum(2), JStr("b1")>>))>>, <<>>, None)

BlockMaps ==
  {[id \in Ids |-> BlockOf(IndexOf(id), f[id], good)] :
     f \in [Ids -> NextTargets], good \in BOOLEAN}

\* The nesting a walk over `blks` may enter before it is known to be in a
\* cycle.
Fuel(blks) == Cardinality(DOMAIN blks) + 1

Say(m) == Builtin("looks_say", In1("MESSAGE", Lit(Str(m))))

Go == <<"g", "o">>

Broadcast(name) == Builtin("event_broadcastandwait", In1("BROADCAST_INPUT", Lit(Str(name))))

N(k) == Lit(Num(Fin(k)))

Bogus == Builtin("bogus_statement", NoInputs)

BogusExpr == Call("bogus_reporter", NoInputs)

CallF(e) == ProcCall("f %s", <<Arg("a1", e)>>)

CallG(e1, e2) == ProcCall("g %s %s", <<Arg("b1", e1), Arg("b2", e2)>>)

Gt(a, b) == Call("operator_gt", In2("OPERAND1", a, "OPERAND2", b))

Minus(a, b) == Call("operator_subtract", In2("NUM1", a, "NUM2", b))

\* The statement in the middle of the first green-flag hat.
HatStatements ==
  { StopAll, StopThisScript, Bogus,
    CallF(N(1)), CallG(N(1), N(2)), CallG(N(1), BogusExpr),
    ProcCall("print %s", <<Arg("p1", Lit(Str(<<"h", "i">>)))>>),
    ProcCall("term-clear", <<>>),
    ProcCall("nope", <<>>),
    ProcCall("f %s", <<Arg("zz", N(1))>>),
    Broadcast(Go),
    Repeat(N(2), CallF(N(1))),
    Repeat(Lit(Str(<<"I", "n", "f", "i", "n", "i", "t", "y">>)), Broadcast(Go)),
    Forever(Do(<<ChangeVariableBy("x", N(1)),
                 If(Gt(GetVar("x"), N(1)), StopAll)>>)),
    Forever(CallF(N(1))),
    IfElse(GetVar("x"), Bogus, CallF(N(0))),
    If(BogusExpr, StopAll),
    Until(Gt(GetVar("x"), N(1)), Do(<<ChangeVariableBy("x", N(1)), CallF(N(1))>>)),
    While(Call("operator_not", In1("OPERAND", GetVar("x"))), SetVariable("x", Lit(Bool(TRUE)))),
    For("i", N(2), Broadcast(Go)),
    Do(<<AddToList("l", N(1)), AddToList("l", N(2)),
         ReplaceItemOfList("l", N(1), LengthOfList("l")),
         DeleteOfList("l", Lit(Str(<<"l", "a", "s", "t">>))),
         SetVariable("x", ItemOfList("l", N(1))), DeleteAllOfList("l")>>),
    Do(<<Builtin("sensing_askandwait", In1("QUESTION", Lit(Str(<<"q">>)))),
         Say(<<"a">>),
         Builtin("motion_changexby", In1("DX", Call("sensing_answer", NoInputs))),
         Builtin("motion_gotoxy", In1("X", N(1)))>>) }

\* The body of the custom procedure "f %s" (parameter n).
ProcBodies ==
  { Say(<<"p">>), StopAll, StopThisScript, Bogus,
    Do(<<Say(<<"p">>), StopThisScript, Say(<<"q">>)>>),
    Repeat(N(2), Do(<<Say(<<"p">>), Forever(StopThisScript), Say(<<"q">>)>>)),
    Do(<<Broadcast(Go), Say(<<"q">>)>>),
    Do(<<If(Gt(ProcArg("n"), N(0)), CallF(Minus(ProcArg("n"), N(1)))),
         AddToList("l", ProcArg("n"))>>) }

\* The body of the first sprite's receiver of "go".
RecvBodies ==
  { Say(<<"r">>), StopAll, Bogus,
    Do(<<StopThisScript, Say(<<"s">>)>>),
    Do(<<CallF(N(1)), Say(<<"s">>)>>) }

\* The body of the second sprite's green-flag hat.
LastHats ==
  { Say(<<"d">>), StopThisScript,
    ProcCall("print %s", <<Arg("p1", Lit(Str(<<"h", "i">>)))>>),
    Builtin("motion_sety", In1("Y", N(3))) }

\* Opcodes of pen and looks statements that take no part in what a project
\* prints, as the first hat may run them.
QuietOpcodes ==
  {"pen_clear", "pen_stamp", "pen_penDown", "pen_penUp", "pen_setPenSizeTo",
   "looks_show", "looks_hide", "looks_setsizeto", "looks_switchcostumeto",
   "pen_setPenColorToColor", "looks_nextcostume"}

\* What a Repeat or a For may be given as its count.
LoopCounts ==
  {Num(Fin(3)), Num(Half(5)), Num(Half(3)), Num(Half(1)), Num(Half(0 - 1)),
   Num(Half(0 - 3)), Num(Fin(0)), Num(Fin(0 - 1)), Num(NegInf), Num(NaN),
   Str(<<"2">>), Str(<<"1", ".", "5">>), Str(<<"x">>), Bool(TRUE)}

\* Repeat `times` of ChangeVariableBy(x, 2)
RepeatAdd(times) == Repeat(Lit(times), ChangeVariableBy("x", N(2)))

\* For i up to `times`: AddToList(seen, i)
ForSeen(times) == For("i", Lit(times), AddToList("seen", GetVar("i")))

LoopHats ==
  {RepeatAdd(t) : t \in LoopCounts \cup {Num(PosInf)}}
    \cup {ForSeen(t) : t \in LoopCounts \cup {Num(PosInf)}}

\* What the variable x may hold before it is changed, and by what.
HeldValues ==
  {Str(<<"a", "b", "c">>), Str(<<"2">>), Num(Half(5)), Num(PosInf), Bool(TRUE)}

Deltas ==
  {Num(Fin(1)), Num(Half(1)), Num(NegInf), Str(<<"1", ".", "5">>), Str(<<"x">>)}

\* x is changed by d, then read, as is z, which is never assigned.
ChangeAndRead(d) ==
  <<ChangeVariableBy("x", Lit(d)), SetVariable("y", GetVar("x")),
    SetVariable("w", GetVar("z"))>>

VarHats ==
  {Do(ChangeAndRead(d)) : d \in Deltas}
    \cup {Do(<<SetVariable("x", Lit(h))>> \o ChangeAndRead(d)) :
            h \in HeldValues, d \in Deltas}

\* The statements a hat may run on the list l.
ListOps ==
  {AddToList("l", Lit(Str(<<"a">>))), AddToList("l", N(7)), DeleteAllOfList("l")}
    \cup {DeleteOfList("l", Lit(i)) :
            i \in {Num(Fin(1)), Num(Fin(2)), Num(Fin(0)),
                   Str(<<"l", "a", "s", "t">>), Str(<<"x">>)}}
    \cup {ReplaceItemOfList("l", Lit(i), Lit(Str(<<"z">>))) :
            i \in {Num(Fin(1)), Num(Fin(2)), Num(Fin(0)),
                   Str(<<"l", "a", "s", "t">>)}}

\* The length of l and its items 1 to 3, read into variables.
ListReads ==
  <<SetVariable("n", LengthOfList("l")), SetVariable("e1", ItemOfList("l", N(1))),
    SetVariable("e2", ItemOfList("l", N(2))), SetVariable("e3", ItemOfList("l", N(3)))>>

ListHats ==
  {Do(<<a, b, c>> \o ListReads) : a, b, c \in ListOps}

\* A call of "g %s %s" (parameters n, m) that passes n - 1 and n, its
\* arguments in either order the HashMap may iterate them in.
CallGWith(order) ==
  ProcCall("g %s %s",
           [k \in 1..2 |->
              IF order[k] = "b1" THEN Arg("b1", Minus(ProcArg("n"), N(1)))
              ELSE Arg("b2", ProcArg("n"))])

ArgOrders == {<<"b1", "b2">>, <<"b2", "b1">>}

\* Bodies of "f %s" that call g with arguments reading f's parameter n.
ArgBodies == {Do(<<CallGWith(o), AddToList("l", ProcArg("n"))>>) : o \in ArgOrders}

\* The motion statements, as a hat or a receiver of either sprite may run them.
MotionStatements ==
  { Builtin("motion_gotoxy", In2("X", N(1), "Y", N(2))),
    Builtin("motion_setx", In1("X", N(3))),
    Builtin("motion_sety", In1("Y", Lit(Str(<<"2">>)))),
    Builtin("motion_changexby", In1("DX", N(2))),
    Builtin("motion_changeyby", In1("DY", Lit(Num(Half(1))))) }

\* x is set to k and a loop whose count or condition reads x runs a body
\* that changes x.
StartCounts == {0, 2, 3}

ChangingLoops ==
  { Repeat(GetVar("x"), ChangeVariableBy("x", N(1))),
    Repeat(GetVar("x"), SetVariable("x", N(0))),
    For("i", GetVar("x"), ChangeVariableBy("x", N(1))),
    For("i", GetVar("x"), SetVariable("x", N(0))),
    While(Gt(GetVar("x"), N(0)), ChangeVariableBy("x", N(0 - 1))),
    While(Gt(GetVar("x"), N(5)), ChangeVariableBy("x", N(1))),
    Until(Gt(GetVar("x"), N(3)), ChangeVariableBy("x", N(1))),
    Until(Gt(GetVar("x"), N(1)), ChangeVariableBy("x", N(1))) }

ChangingHats ==
  {Do(<<SetVariable("x", N(k)), loop>>) : k \in StartCounts, loop \in ChangingLoops}

NoBody == Do(<<>>)

\* A deserialized project of two sprites; procs and sprites in an order the
\* HashMaps may give.
MkProjectWith(h, pb, rb, t, r2) ==
  [sprites |-> <<
     [procs |-> << Proc(WhenBroadcastReceived(Go), rb),
                   Proc(WhenFlagClicked, Do(<<Say(<<"a">>), h, Say(<<"b">>)>>)),
                   Proc(WhenFlagClicked, Say(<<"c">>)) >>,
      custom_procs |->
        [c \in {"f %s", "g %s %s", "print %s", "term-clear"} |->
           IF c = "f %s" THEN [arg_names_by_id |-> [a \in {"a1"} |-> "n"], body |-> pb]
           ELSE IF c = "g %s %s"
           THEN [arg_names_by_id |-> [a \in {"b1", "b2"} |-> IF a = "b1" THEN "n" ELSE "m"],
                 body |-> Say(<<"g">>)]
           ELSE [arg_names_by_id |-> [a \in {"p1"} |-> "s"], body |-> NoBody]],
      x |-> Fin(0), y |-> Fin(0)],
     [procs |-> << Proc(WhenBroadcastReceived(<<"n", "o">>), Bogus),
                   Proc(WhenFlagClicked, t),
                   Proc(WhenBroadcastReceived(Go), r2) >>,
      custom_procs |->
        [c \in {"f %s"} |->
           [arg_names_by_id |-> [a \in {"a1"} |-> "n"], body |-> pb]],
      x |-> Fin(5), y |-> Fin(5)] >>]

MkProject(h, pb, rb, t) == MkProjectWith(h, pb, rb, t, Say(<<"r", "2">>))

Projects ==
  { MkProject(h, pb, rb, Say(<<"d">>)) :
      h \in HatStatements, pb \in ProcBodies, rb \in RecvBodies }
  \cup { MkProject(h, Say(<<"p">>), Say(<<"r">>), t) :
           h \in {StopThisScript, StopAll, Say(<<"x">>)}, t \in LastHats }
  \cup { MkProject(Builtin(o, In1("SIZE", N(1))), Say(<<"p">>), Say(<<"r">>),
                   Say(<<"d">>)) : o \in QuietOpcodes }
  \cup { MkProject(h, Say(<<"p">>), Say(<<"r">>), Say(<<"d">>)) :
           h \in LoopHats \cup VarHats \cup ListHats }
  \cup { MkProject(CallF(N(3)), pb, Say(<<"r">>), Say(<<"d">>)) : pb \in ArgBodies }
  \cup { MkProject(h, Say(<<"p">>), Say(<<"r">>), Say(<<"d">>)) : h \in ChangingHats }
  \cup { MkProjectWith(Broadcast(Go), Say(<<"p">>), m1, Broadcast(Go), m2) :
           m1, m2 \in MotionStatements }
  \cup { MkProjectWith(m, Say(<<"p">>), Say(<<"r">>), m, Say(<<"r", "2">>)) :
           m \in MotionStatements }

NoProject == [sprites |-> <<>>]

\* ------------------------------------------------------------------- main

\* main returns or the process aborts: the exit status is fixed.
Exit(code, msg) ==
  /\ mainpc' = "exited"
  /\ exitCode' = code
  /\ stderr' = msg

\* File::open(path)
OpenFile ==
  /\ mainpc = "open"
  /\ \/ mainpc' = "zip" /\ UNCHANGED <<exitCode, stderr>>
     \/ Exit(0, "IO error")
  /\ UNCHANGED vars_vm
  /\ UNCHANGED vars_lower
  /\ UNCHANGED vars_value

\* zip::ZipArchive::new(file)
OpenZip ==
  /\ mainpc = "zip"
  /\ \/ mainpc' = "entry" /\ UNCHANGED <<exitCode, stderr>>
     \/ Exit(0, "Zip error")
  /\ UNCHANGED vars_vm
  /\ UNCHANGED vars_lower
  /\ UNCHANGED vars_value

\* archive.by_name("project.json")
ZipEntry ==
  /\ mainpc = "entry"
  /\ \/ mainpc' = "deser" /\ UNCHANGED <<exitCode, stderr>>
     \/ Exit(0, "Zip error")
  /\ UNCHANGED vars_vm
  /\ UNCHANGED vars_lower
  /\ UNCHANGED vars_value

\* serde_json::from_reader(project_json): a VM, or a parse or lowering error.
Deserialize ==
  /\ mainpc = "deser"
  /\ \/ \E p \in Projects :
          /\ project' = p
          /\ xy' = [i \in 1..Len(p.sprites) |-> [x |-> p.sprites[i].x, y |-> p.sprites[i].y]]
          /\ mainpc' = "run"
          /\ UNCHANGED <<exitCode, stderr>>
     \/ Exit(0, "Deserialization error") /\ UNCHANGED <<project, xy>>
  /\ UNCHANGED <<ctl, stack, vars, lists, proc_args, answer, out, trace>>
  /\ UNCHANGED vars_lower
  /\ UNCHANGED vars_value

\* vm.run() returned: `if let Err(err) = vm.run() { eprintln!(..) }`, and main
\* returns.
MainExit ==
  /\ mainpc = "run"
  /\ ctl.mode = "done"
  /\ Exit(0, IF ctl.res # "Ok" THEN "VM error" ELSE "")
  /\ UNCHANGED vars_vm
  /\ UNCHANGED vars_lower
  /\ UNCHANGED vars_value

\* A panic unwinds main: the Rust runtime exits with status 101.
Abort ==
  /\ mainpc = "run"
  /\ ctl.mode = "panic"
  /\ Exit(101, "panicked")
  /\ UNCHANGED vars_vm
  /\ UNCHANGED vars_lower
  /\ UNCHANGED vars_value

Init ==
  /\ mainpc = "open"
  /\ exitCode = -1
  /\ stderr = ""
  /\ project = NoProject
  /\ ctl = Idle
  /\ stack = <<>>
  /\ vars = EmptyMap
  /\ lists = EmptyMap
  /\ proc_args = EmptyMap
  /\ answer = <<>>
  /\ xy = <<>>
  /\ out = <<>>
  /\ trace = <<>>
  /\ blocks = EmptyMap
  /\ lowered = NotLowered
  /\ operands = <<>>
  /\ computed = NotComputed

Next ==
  \/ OpenFile \/ OpenZip \/ ZipEntry \/ Deserialize \/ MainExit \/ Abort
  \/ RunStart \/ RunHat \/ RunFinish \/ RetRunProc
  \/ ExecDo \/ RetDo \/ ExecIf \/ ExecIfElse
  \/ ExecRepeat \/ RetRepeat \/ ExecForever \/ RetForever
  \/ ExecUntil \/ RetUntil \/ ExecWhile \/ RetWhile \/ ExecFor \/ RetFor
  \/ ExecProcCallMissing \/ ExecProcCallReserved \/ ExecProcCall \/ RetProcCall
  \/ ExecDeleteAllOfList \/ ExecDeleteOfList \/ ExecAddToList
  \/ ExecReplaceItemOfList \/ ExecSetVariable \/ ExecChangeVariableBy
  \/ ExecStopAll \/ ExecStopThisScript
  \/ ExecBuiltin \/ ExecAskAndWait \/ ExecBroadcast
  \/ BroadcastRecv \/ BroadcastReturn

Spec == Init /\ [][Next]_allvars

\* The lowerer on its own: build_statement applied to a block of a block map.
InitLower ==
  /\ mainpc = "deser"
  /\ exitCode = -1
  /\ stderr = ""
  /\ project = NoProject
  /\ ctl = Idle
  /\ stack = <<>>
  /\ vars = EmptyMap
  /\ lists = EmptyMap
  /\ proc_args = EmptyMap
  /\ answer = <<>>
  /\ xy = <<>>
  /\ out = <<>>
  /\ trace = <<>>
  /\ blocks \in BlockMaps
  /\ lowered = NotLowered
  /\ operands = <<>>
  /\ computed = NotComputed

LowerBlock ==
  /\ mainpc = "deser"
  /\ ~lowered.done
  /\ \E id \in Ids \cup {"missing"} :
       lowered' = [done |-> TRUE, id |-> id,
                   res |-> build_statement(blocks, id, Fuel(blocks))]
  /\ UNCHANGED blocks
  /\ UNCHANGED vars_main
  /\ UNCHANGED vars_vm
  /\ UNCHANGED vars_value

NextLower == LowerBlock

SpecLower == InitLower /\ [][NextLower]_allvars

\* ------------------------------------------------------------ properties

\* The history entries of executed statements.
IsStmt(i, T) == trace[i].ev = "stmt" /\ trace[i].stmt.type = T

DepthOf(d, name) == IF name \in DOMAIN d THEN d[name] ELSE 0

\* Every argument stack of `pa` is as deep as `d` says.
SameDepths(d, pa) ==
  \A name \in DOMAIN d \cup DOMAIN pa : DepthOf(d, name) = DepthOf(Depths(pa), name)

RuntimeErrors == {"UnknownOpcode", "IOError"}

\* C1: when a ProcCall to a custom procedure finishes, be it by a normal
\* return, by StopThisScript, by StopAll or by a runtime error in the body
\* or in an argument, every stack of proc_args is as deep as it was just
\* before the call.
C1_ProcArgsRestored ==
  [][ /\ Returning("ProcCall") => SameDepths(Top.saved, proc_args')
      /\ (CanExec("ProcCall") /\ ctl'.mode = "ret")
           => SameDepths(Depths(proc_args), proc_args') ]_allvars

\* C2: once StopAll has executed, at whatever depth, no statement and no
\* hat is entered any more, the signal travels up unchanged, and run()
\* returns Ok.
C2_StopAllEndsRun ==
  \A i \in 1..Len(trace) :
    IsStmt(i, "StopAll") =>
      /\ i = Len(trace)
      /\ ctl.mode \in {"ret", "done"}
      /\ ctl.mode = "ret" => ctl.res = "StopAll"
      /\ ctl.mode = "done" => ctl.res = "Ok"
      /\ mainpc = "exited" => exitCode = 0 /\ stderr = ""

\* C2's case: run() has returned after a StopAll inside a custom procedure
\* that a broadcast receiver called, with green-flag hats left to run.
C2_Witness ==
  /\ ctl.mode = "done"
  /\ trace # <<>>
  /\ IsStmt(Len(trace), "StopAll")
  /\ Last(trace).bkind = "Custom"
  /\ \E i \in 1..Len(trace) : trace[i].ev = "recv"
  /\ Cardinality({i \in 1..Len(trace) : trace[i].ev = "hat"}) = 1

\* C3: a StopThisScript executed in the body of a custom procedure ends the
\* body: the next thing to run is outside the body, it is the statement
\* after the call when the caller has one, and the call itself returns Ok.
C3_StopThisScriptEndsBody ==
  \A i \in 1..Len(trace) :
    (IsStmt(i, "StopThisScript") /\ trace[i].bkind = "Custom") =>
      /\ i < Len(trace) =>
           /\ trace[i + 1].depth < trace[i].boundary
           /\ trace[i].hasNext =>
                /\ trace[i + 1].ev = "stmt"
                /\ trace[i + 1].stmt = trace[i].next
                /\ trace[i + 1].depth = trace[i].boundary - 1
      /\ i = Len(trace) =>
           /\ ctl.mode \in {"ret", "done", "exec"}
           /\ ctl.mode = "exec" =>
                /\ Len(stack) < trace[i].boundary
                /\ trace[i].hasNext =>
                     /\ ctl.stmt = trace[i].next
                     /\ Len(stack) = trace[i].boundary - 1
           /\ (ctl.mode = "ret" /\ Len(stack) >= trace[i].boundary)
                => ctl.res = "StopThisScript"
           /\ (ctl.mode = "ret" /\ Len(stack) = trace[i].boundary - 1)
                => ctl.res = "Ok"
           /\ ctl.mode = "done" => ctl.res = "Ok"

\* C3's case: a StopThisScript inside loops of a custom procedure's body
\* was followed by the statement after the call.
C3_Witness ==
  \E i \in 1..Len(trace) :
    /\ IsStmt(i, "StopThisScript")
    /\ trace[i].bkind = "Custom"
    /\ trace[i].depth >= trace[i].boundary + 3
    /\ trace[i].hasNext
    /\ i < Len(trace)
    /\ trace[i + 1].stmt = trace[i].next

\* The positions <<sprite, proc>> of the green-flag hats, and their order in
\* run()'s loops.
FlagHats ==
  {<<si, pi>> \in (1..Len(Sprites)) \X (1..3) :
     pi <= Len(Sprites[si].procs)
     /\ Sprites[si].procs[pi].signature.kind = "WhenFlagClicked"}

Before(a, b) == a[1] < b[1] \/ (a[1] = b[1] /\ a[2] < b[2])

\* The hat that was running when the i-th entry was made.
HatAt(i) ==
  trace[CHOOSE j \in 1..i :
          /\ trace[j].ev = "hat"
          /\ \A k \in (j + 1)..i : trace[k].ev # "hat"].hat

\* C4: a StopThisScript executed directly in a green-flag hat ends that hat
\* only: the next thing to run is the next green-flag hat in run()'s order,
\* and when there is none run() returns Ok.
C4_StopThisScriptEndsHat ==
  \A i \in 1..Len(trace) :
    (IsStmt(i, "StopThisScript") /\ trace[i].bkind = "Hat") =>
      /\ i < Len(trace) =>
           /\ trace[i + 1].ev = "hat"
           /\ Before(HatAt(i), trace[i + 1].hat)
           /\ trace[i + 1].hat \in FlagHats
           /\ \A h \in FlagHats :
                Before(HatAt(i), h) => ~Before(h, trace[i + 1].hat)
      /\ i = Len(trace) =>
           /\ ctl.mode \in {"ret", "done"}
           /\ ctl.mode = "ret" =>
                ctl.res = IF Len(stack) >= trace[i].boundary
                          THEN "StopThisScript" ELSE "Ok"
           /\ ctl.mode = "done" =>
                /\ ctl.res = "Ok"
                /\ \A h \in FlagHats : ~Before(HatAt(i), h)

\* C4's case: run() returned Ok after a StopThisScript in the first hat and
\* another in the last hat, every hat having been entered.
C4_Witness ==
  /\ ctl.mode = "done"
  /\ ctl.res = "Ok"
  /\ Cardinality({i \in 1..Len(trace) :
            IsStmt(i, "StopThisScript") /\ trace[i].bkind = "Hat"}) = 2
  /\ {trace[i].hat : i \in {j \in 1..Len(trace) : trace[j].ev = "hat"}} = FlagHats
  /\ Cardinality(FlagHats) = 3

\* The i-th entry is an event_broadcastandwait that went on into its loops.
IsBroadcast(i) ==
  /\ IsStmt(i, "Builtin")
  /\ trace[i].stmt.opcode = "event_broadcastandwait"
  /\ trace[i].raised = "none"

\* The name it broadcasts (its BROADCAST_INPUT is a literal).
BroadcastName(i) == to_string(trace[i].stmt.inputs["BROADCAST_INPUT"].v)

\* The positions <<sprite, proc>> of the receivers of `name`.
ReceiversOf(name) ==
  {<<si, pi>> \in (1..Len(Sprites)) \X (1..3) :
     pi <= Len(Sprites[si].procs)
     /\ Sprites[si].procs[pi].signature = WhenBroadcastReceived(name)}

\* The first entry after the i-th that is not nested in it; one past the
\* history when there is none.
SegmentEnd(i) ==
  IF \E j \in (i + 1)..Len(trace) : trace[j].depth <= trace[i].depth
  THEN CHOOSE j \in (i + 1)..Len(trace) :
         /\ trace[j].depth <= trace[i].depth
         /\ \A k \in (i + 1)..(j - 1) : trace[k].depth > trace[i].depth
  ELSE Len(trace) + 1

Segment(i) == (i + 1)..(SegmentEnd(i) - 1)

\* The receivers the i-th entry's broadcast has entered.
RecvIdx(i) == {j \in Segment(i) : trace[j].depth = trace[i].depth + 1}

\* The broadcast of the i-th entry has returned Ok.
BroadcastOver(i) ==
  \/ SegmentEnd(i) <= Len(trace)
  \/ /\ Len(stack) <= trace[i].depth
     /\ ctl.mode = "exec" \/ (ctl.mode = "ret" /\ ctl.res = "Ok")
  \/ /\ ctl.mode = "done"
     /\ ctl.res = "Ok"
     /\ \A j \in Segment(i) : trace[j].raised # "StopAll"

\* C5: the receivers an event_broadcastandwait runs are receivers of its
\* name, in the order of the loops over sprites and procs, each entered once
\* and its body started before the next is entered; when the broadcast is
\* over every receiver of the name has run, whether or not a receiver
\* stopped itself, and only then does the statement after the broadcast run.
C5_BroadcastRunsReceivers ==
  \A i \in 1..Len(trace) :
    IsBroadcast(i) =>
      /\ \A j \in RecvIdx(i) :
           /\ trace[j].ev = "recv"
           /\ trace[j].hat \in ReceiversOf(BroadcastName(i))
           /\ j < Len(trace) =>
                /\ trace[j + 1].depth = trace[i].depth + 2
                /\ trace[j + 1].stmt = Sprites[trace[j].hat[1]].procs[trace[j].hat[2]].body
           /\ \A k \in RecvIdx(i) : j < k => Before(trace[j].hat, trace[k].hat)
      /\ BroadcastOver(i) =>
           {trace[j].hat : j \in RecvIdx(i)} = ReceiversOf(BroadcastName(i))
      /\ (trace[i].hasAfter /\ SegmentEnd(i) <= Len(trace)) =>
           /\ trace[SegmentEnd(i)].stmt = trace[i].after
           /\ trace[SegmentEnd(i)].depth = trace[i].depth

\* C5's case: a broadcast ran two receivers in two sprites, the first of
\* which executed StopThisScript, and then the statement after the broadcast
\* ran.
C5_Witness ==
  \E i \in 1..Len(trace) :
    /\ IsBroadcast(i)
    /\ Cardinality(RecvIdx(i)) = 2
    /\ \E j \in Segment(i) : IsStmt(j, "StopThisScript") /\ trace[j].bkind = "Receiver"
    /\ trace[i].hasAfter
    /\ SegmentEnd(i) <= Len(trace)
    /\ trace[SegmentEnd(i)].stmt = trace[i].after

\* C6: the process exits with status 0 exactly when run() returned Ok.
C6_ExitCodeTellsSuccess ==
  mainpc = "exited" => (exitCode = 0 <=> (ctl.mode = "done" /\ ctl.res = "Ok"))

\* C7: a runtime error on its way up is handed from frame to frame: every
\* step pops one frame and keeps the error, nothing is entered and no data
\* changes, and when the last frame is popped run() has returned the error.
C7_ErrorUnwinds ==
  [][ (mainpc = "run" /\ ctl.mode = "ret" /\ ctl.res \in RuntimeErrors) =>
        /\ stack' = Pop
        /\ ctl'.res = ctl.res
        /\ ctl'.mode = IF Pop = <<>> THEN "done" ELSE "ret"
        /\ trace' = trace
        /\ UNCHANGED <<vars, lists, proc_args, answer, xy, out>> ]_allvars

\* C7's case: run() returned UnknownOpcode raised in a broadcast receiver
\* under a custom procedure called in a Forever loop, with hats left to run.
C7_Witness ==
  /\ ctl.mode = "done"
  /\ ctl.res = "UnknownOpcode"
  /\ trace # <<>>
  /\ Last(trace).raised = "UnknownOpcode"
  /\ Last(trace).bkind = "Receiver"
  /\ \E i \in 1..Len(trace) : IsStmt(i, "Forever")
  /\ \E i \in 1..Len(trace) : IsStmt(i, "ProcCall")
  /\ Cardinality({i \in 1..Len(trace) : trace[i].ev = "hat"}) = 1

\* The first argument of the call that is about to run, if any, evaluates.
FirstArgEvaluates ==
  ctl.stmt.args = <<>> \/ EvalExpr(proc_args, ctl.sprite, ctl.stmt.args[1].expr).ok

\* C8: a ProcCall of a reserved proccode whose argument evaluates writes to
\* stdout and returns Ok, registered or not, and leaves proc_args alone.
C8_ReservedProcCallSucceeds ==
  [][ (CanExec("ProcCall") /\ ctl.stmt.proccode \in ReservedProccodes
         /\ FirstArgEvaluates) =>
        /\ ctl'.mode = "ret"
        /\ ctl'.res = "Ok"
        /\ proc_args' = proc_args
        /\ Len(out') = IF ctl.stmt.proccode = "term-clear" \/ ctl.stmt.args # <<>>
                       THEN Len(out) + 1 ELSE Len(out) ]_allvars

\* C9: a ProcCall of a proccode that is neither reserved nor registered
\* returns a runtime error to its caller; the process goes on.
C9_MissingProcIsError ==
  [][ (CanExec("ProcCall") /\ ctl.stmt.proccode \notin ReservedProccodes
         /\ ctl.stmt.proccode \notin DOMAIN CustomProcs(ctl.sprite)) =>
        /\ ctl'.mode = "ret"
        /\ ctl'.res \in RuntimeErrors ]_allvars

\* The walk along `next` from the block `id`: the blocks it visits and how
\* it ends ("none": at a block without next, "missing": at an id of no
\* block, "cycle": never).
RECURSIVE Walk(_, _)
Walk(id, left) ==
  IF left = 0 THEN [end |-> "cycle", ids |-> <<>>]
  ELSE IF id \notin DOMAIN blocks THEN [end |-> "missing", ids |-> <<>>]
  ELSE IF ~blocks[id].next.some THEN [end |-> "none", ids |-> <<id>>]
  ELSE [Walk(blocks[id].next.v, left - 1) EXCEPT !.ids = <<id>> \o @]

\* The lowering of the block `id` by itself.
Single(id) == build_single_statement(blocks, blocks[id], Fuel(blocks) - 1)

\* build_statement's result `res` is the chain `ids` flattened.
Flattens(res, ids) ==
  IF Len(ids) = 1 /\ ~blocks[ids[1]].next.some THEN res = Single(ids[1])
  ELSE /\ res.ok
       /\ res.v.type = "Do"
       /\ Len(res.v.stmts) = Len(ids)
       /\ \A i \in 1..Len(ids) : res.v.stmts[i] = Single(ids[i]).v

ChainLowers(w) == w.end = "none" /\ \A i \in 1..Len(w.ids) : Single(w.ids[i]).ok

ChainFlattened(w) == ChainLowers(w) => Flattens(lowered.res, w.ids)

\* C10: build_statement on a block whose next-chain ends after k further
\* blocks, each of which lowers, returns Do of the k+1 lowered statements in
\* chain order when k >= 1, and the block's lowered statement itself when
\* the block has no next.
C10_ChainFlattening ==
  (lowered.done /\ lowered.id \in DOMAIN blocks) =>
    ChainFlattened(Walk(lowered.id, Cardinality(DOMAIN blocks) + 1))

ThreeFlattened(w) ==
  /\ ChainLowers(w)
  /\ Len(w.ids) = 3
  /\ lowered.res.ok
  /\ lowered.res.v.type = "Do"
  /\ Len(lowered.res.v.stmts) = 3
  /\ lowered.res.v.stmts[3].type = "Forever"

\* C10's case: a chain of three blocks that ends in a control_forever was
\* lowered to a Do of three statements.
C10_Witness ==
  /\ lowered.done
  /\ lowered.id \in DOMAIN blocks
  /\ ThreeFlattened(Walk(lowered.id, Cardinality(DOMAIN blocks) + 1))

\* ----------------------------------------------------------- single blocks

\* The opcodes build_single_statement lowers with a substack.
ControlOpcodes == {"control_if", "control_if_else", "control_repeat",
                   "control_forever", "control_repeat_until", "control_while",
                   "control_for_each"}

\* The input build_single_statement reads next to the substacks of a control
\* block, "" if it reads none.
ConditionName(opcode) ==
  CASE opcode \in {"control_if", "control_if_else", "control_repeat_until",
                   "control_while"} -> "CONDITION"
    [] opcode = "control_repeat" -> "TIMES"
    [] opcode = "control_for_each" -> "VALUE"
    [] OTHER -> ""

\* The substacks build_single_statement lowers for a control block.
SubstackNames(opcode) ==
  IF opcode = "control_if_else" THEN {"SUBSTACK", "SUBSTACK2"} ELSE {"SUBSTACK"}

\* How a block map may spell a substack input: not at all, [1, null], a
\* reference to the block b2, a reference to no block, [1, 5], a bare null.
SubstackForms == {"missing", "null", "block", "dangling", "number", "bare"}

SubstackPairs(name, form) ==
  CASE form = "missing" -> <<>>
    [] form = "null" -> <<Pair(name, JArr(<<JNum(1), JNull>>))>>
    [] form = "block" -> <<Pair(name, JArr(<<JNum(2), JStr("b2")>>))>>
    [] form = "dangling" -> <<Pair(name, JArr(<<JNum(2), JStr("missing")>>))>>
    [] form = "number" -> <<Pair(name, JArr(<<JNum(1), JNum(5)>>))>>
    [] form = "bare" -> <<Pair(name, JNull)>>

\* The literal "1" as an input
OneLiteral == JArr(<<JNum(1), JArr(<<JNum(10), JStr(<<"1">>)>>)>>)

ConditionPairs(opcode, present) ==
  IF present /\ ConditionName(opcode) # ""
  THEN <<Pair(ConditionName(opcode), OneLiteral)>> ELSE <<>>

CounterFields(opcode) ==
  IF opcode = "control_for_each"
  THEN <<Pair("VARIABLE", JArr(<<JStr("i"), JStr("i")>>))>> ELSE <<>>

\* A control block of a block map.
ControlBlock(opcode, s1, s2, present) ==
  Block(opcode, None,
        SubstackPairs("SUBSTACK", s1) \o SubstackPairs("SUBSTACK2", s2)
          \o ConditionPairs(opcode, present),
        CounterFields(opcode), None)

ControlBlocks ==
  {ControlBlock(o, s1, s2, p) :
     o \in ControlOpcodes, s1 \in SubstackForms,
     s2 \in {"missing", "null", "block"}, p \in BOOLEAN}

\* A control_stop with the given STOP_OPTION.
StopBlock(option) ==
  Block("control_stop", None, <<>>,
        <<Pair("STOP_OPTION", JArr(<<JStr(option), JNull>>))>>, None)

StopOptions == {"all", "this script", "other scripts in sprite"}

\* A field as sensing_of and looks_costumenumbername carry one.
SomeFields == <<Pair("NUMBER_NAME", JArr(<<JStr("number"), JNull>>))>>

\* A statement without a lowering rule of its own: with or without fields,
\* its input a literal or the reporter b3.
PlainBlock(withFields, reporter) ==
  Block("looks_switchbackdropto", None,
        <<Pair("BACKDROP",
               IF reporter THEN JArr(<<JNum(3), JStr("b3")>>) ELSE OneLiteral)>>,
        IF withFields THEN SomeFields ELSE <<>>, None)

\* A reporter without a lowering rule of its own.
PlainReporter(withFields) ==
  Block("looks_costumenumbername", None, <<>>,
        IF withFields THEN SomeFields ELSE <<>>, None)

TestedBlocks ==
  ControlBlocks \cup {StopBlock(o) : o \in StopOptions}
    \cup {PlainBlock(f, r) : f, r \in BOOLEAN}

\* Block maps of a block b1, the statement b2 it may enclose and the
\* reporter b3 it may read.
SingleBlockMaps ==
  {[id \in {"b1", "b2", "b3"} |->
      CASE id = "b1" -> b
        [] id = "b2" -> BlockOf(1, None, TRUE)
        [] id = "b3" -> PlainReporter(f)] :
     b \in TestedBlocks, f \in BOOLEAN}

\* The lowerer applied to one block of each kind.
InitSingle ==
  /\ mainpc = "deser"
  /\ exitCode = -1
  /\ stderr = ""
  /\ project = NoProject
  /\ ctl = Idle
  /\ stack = <<>>
  /\ vars = EmptyMap
  /\ lists = EmptyMap
  /\ proc_args = EmptyMap
  /\ answer = <<>>
  /\ xy = <<>>
  /\ out = <<>>
  /\ trace = <<>>
  /\ blocks \in SingleBlockMaps
  /\ lowered = NotLowered
  /\ operands = <<>>
  /\ computed = NotComputed

SpecSingle == InitSingle /\ [][NextLower]_allvars

\* The input `name` of `block` is missing or its reference is null.
NoSubstack(block, name) ==
  \/ ~Lookup(block.inputs, name).some
  \/ /\ Lookup(block.inputs, name).v.j = "arr"
     /\ Len(Lookup(block.inputs, name).v.a) = 2
     /\ Lookup(block.inputs, name).v.a[2].j = "null"

\* The statement a lowered control block holds for its substack `name`.
BodyOf(stmt, name) ==
  IF stmt.type \in {"If", "IfElse"}
  THEN (IF name = "SUBSTACK2" THEN stmt.if_false ELSE stmt.if_true)
  ELSE stmt.body

\* What the parts of the control block other than its substack `name` lower to.
OtherParts(block, name) ==
  (IF ConditionName(block.opcode) = "" THEN {}
   ELSE {input(blocks, block, ConditionName(block.opcode), Fuel(blocks) - 1)})
    \cup {substack(blocks, block, n, Fuel(blocks) - 1) :
            n \in SubstackNames(block.opcode) \ {name}}

\* The substack `name` of the lowered control block became the empty Do; an
\* error, if any, is that of another part of the block.
EmptyBody(block, name) ==
  IF lowered.res.ok THEN BodyOf(lowered.res.v, name) = Do(<<>>)
  ELSE lowered.res \in OtherParts(block, name)

LoweredControl ==
  /\ lowered.done
  /\ lowered.id = "b1"
  /\ blocks["b1"].opcode \in ControlOpcodes

\* C11: for every control block (if, if_else, repeat, forever, repeat_until,
\* while, for_each), a substack input that is missing or whose reference is
\* null lowers to the empty Do and never produces a lowering error.
C11_AbsentSubstackIsEmptyDo ==
  LoweredControl =>
    \A name \in SubstackNames(blocks["b1"].opcode) :
      NoSubstack(blocks["b1"], name) => EmptyBody(blocks["b1"], name)

\* C11's case: a control_if_else whose SUBSTACK is missing and whose
\* SUBSTACK2 is [1, null] was lowered to an IfElse of two empty Dos.
C11_Witness ==
  /\ LoweredControl
  /\ blocks["b1"].opcode = "control_if_else"
  /\ ~Lookup(blocks["b1"].inputs, "SUBSTACK").some
  /\ Lookup(blocks["b1"].inputs, "SUBSTACK2").some
  /\ NoSubstack(blocks["b1"], "SUBSTACK2")
  /\ lowered.res.ok
  /\ lowered.res.v.if_true = Do(<<>>)
  /\ lowered.res.v.if_false = Do(<<>>)

\* The statement opcodes build_single_statement has an arm for.
StatementOpcodes ==
  ControlOpcodes \cup
    {"procedures_call", "data_deletealloflist", "data_deleteoflist",
     "data_addtolist", "data_replaceitemoflist", "data_setvariableto",
     "data_changevariableby", "control_stop"}

\* The reporter opcodes build_funcall has an arm for.
ReporterOpcodes ==
  {"argument_reporter_string_number", "data_itemoflist", "data_lengthoflist",
   "operator_mathop"}

\* The STOP_OPTION of a control_stop block of the block maps above.
StopOption(block) == Lookup(block.fields, "STOP_OPTION").v.a[1].s

\* The reporter blocks the inputs of `block` refer to.
ReportersOf(block) ==
  {blocks[block.inputs[i].json.a[2].s] :
     i \in {k \in 1..Len(block.inputs) :
              /\ block.inputs[k].json.j = "arr"
              /\ block.inputs[k].json.a[2].j = "str"
              /\ block.inputs[k].json.a[2].s \in DOMAIN blocks}}

\* A construct the lowerer does not support: a control_stop with an option
\* other than "all" and "this script", or a statement or a reporter without
\* an arm of its own that carries fields.
Unsupported(block) ==
  \/ block.opcode = "control_stop" /\ StopOption(block) \notin {"all", "this script"}
  \/ block.opcode \notin StatementOpcodes /\ block.fields # <<>>
  \/ /\ block.opcode \notin StatementOpcodes
     /\ \E r \in ReportersOf(block) :
          r.opcode \notin ReporterOpcodes /\ r.fields # <<>>

\* C12: lowering a block map that contains an unsupported construct (a
\* control_stop whose STOP_OPTION is neither "all" nor "this script", or an
\* opcode without a dedicated lowering rule that carries non-empty fields)
\* returns a lowering error value that aborts loading; it does not crash
\* the process.
C12_UnsupportedIsLoweringError ==
  (lowered.done /\ lowered.id = "b1" /\ Unsupported(blocks["b1"])) =>
    (~lowered.res.ok /\ lowered.res.err \in DeErrors)

\* The statement opcodes call_builtin_statement has an arm for.
BuiltinOpcodes ==
  {"event_broadcastandwait", "motion_gotoxy", "motion_setx", "motion_sety",
   "motion_changexby", "motion_changeyby", "looks_say", "sensing_askandwait",
   "control_wait"} \cup NoOpOpcodes

\* The statement opcodes that are to succeed without an effect.
AcceptedNoOps ==
  {"pen_clear", "pen_stamp", "pen_penDown", "pen_penUp", "pen_setPenSizeTo",
   "looks_show", "looks_hide", "looks_setsizeto", "looks_switchcostumeto"}

\* C13: executing any of the statement opcodes pen_clear, pen_stamp,
\* pen_penDown, pen_penUp, pen_setPenSizeTo, looks_show, looks_hide,
\* looks_setsizeto, looks_switchcostumeto returns success (never
\* UnknownOpcode) and changes no runtime state; every opcode outside the
\* supported set returns UnknownOpcode.
C13_NoOpsSucceed ==
  [][ /\ (CanExec("Builtin") /\ ctl.stmt.opcode \in AcceptedNoOps) =>
           /\ ctl'.mode = "ret"
           /\ ctl'.res = "Ok"
           /\ DataUnchanged
      /\ (CanExec("Builtin")
            /\ ctl.stmt.opcode \notin BuiltinOpcodes \cup AcceptedNoOps) =>
           /\ ctl'.mode = "ret"
           /\ ctl'.res = "UnknownOpcode" ]_allvars

\* ------------------------------------------------------ functions of Value

\* Values a function of Value is applied to.
Values ==
  {Str(<<"l", "a", "s", "t">>), Str(<<"L", "a", "s", "t">>),
   Str(<<"L", "A", "S", "T">>), Str(<<"2">>), Str(<<"1", "0">>),
   Str(<<"1", "a">>), Str(<<" ", "1", ".", "5">>), Str(<<>>),
   Num(Fin(0)), Num(Fin(1)), Num(Fin(0 - 1)), Num(Half(5)), Num(Half(1)),
   Num(PosInf), Num(NaN), Bool(TRUE), Num(Fin(2)),
   Str(<<"U+00E9">>), Str(<<"a", "U+20AC">>)}

InitValue ==
  /\ mainpc = "run"
  /\ exitCode = -1
  /\ stderr = ""
  /\ project = NoProject
  /\ ctl = Idle
  /\ stack = <<>>
  /\ vars = EmptyMap
  /\ lists = EmptyMap
  /\ proc_args = EmptyMap
  /\ answer = <<>>
  /\ xy = <<>>
  /\ out = <<>>
  /\ trace = <<>>
  /\ blocks = <<>>
  /\ lowered = NotLowered
  /\ operands \in Values \X Values \X Values
  /\ computed = NotComputed

\* Value::to_index applied to the first operand
ToIndex ==
  /\ computed.op = "none"
  /\ computed' = [op |-> "to_index", index |-> to_index(operands[1])]
  /\ UNCHANGED <<operands, vars_main, vars_vm, vars_lower>>

\* Value::compare applied to each two of the operands
Compare ==
  /\ computed.op = "none"
  /\ computed' = [op |-> "compare",
                  ord |-> [i \in 1..3 |->
                             [j \in 1..3 |-> compare(operands[i], operands[j])]]]
  /\ UNCHANGED <<operands, vars_main, vars_vm, vars_lower>>

\* operator_length of the first operand and operator_letter_of of the second
\* operand in the first, as eval_funcall computes them
LetterOf ==
  /\ computed.op = "none"
  /\ computed' =
       [op |-> "letter_of",
        length |-> eval_funcall(EmptyMap, 0, "operator_length",
                                In1("STRING", Lit(operands[1]))),
        letter |-> eval_funcall(EmptyMap, 0, "operator_letter_of",
                                In2("STRING", Lit(operands[1]),
                                    "LETTER", Lit(operands[2])))]
  /\ UNCHANGED <<operands, vars_main, vars_vm, vars_lower>>

NextValue == ToIndex \/ Compare \/ LetterOf

SpecValue == InitValue /\ [][NextValue]_allvars

\* The index of the number n: Nth(n - 1), 0-based, from 1 on.
IndexOfNumber(n) ==
  IF FCmp(n, Fin(1)) # "Less" THEN Some(IndexNth(AsUsize(n) - 1)) ELSE None

\* The index a Value is to stand for.
IndexFor(v) ==
  IF v.t = "Str" /\ LowerStr(v.s) = <<"l", "a", "s", "t">> THEN Some(IndexLast)
  ELSE IF try_to_num(v).some THEN IndexOfNumber(try_to_num(v).v)
  ELSE None

\* C14: to_index returns Last for every string whose lowercase form is
\* "last" (e.g. "last", "Last", "LAST"); otherwise, when try_to_num gives a
\* number n, it returns Nth(n-1) if n >= 1 and None if n < 1 (including 0
\* and negatives); it returns None when try_to_num fails.
C14_ToIndex ==
  computed.op = "to_index" => computed.index = IndexFor(operands[1])

\* The reverse of an Ordering (Ordering::reverse).
Reverse(o) == IF o = "Less" THEN "Greater" ELSE IF o = "Greater" THEN "Less" ELSE o

Antisymmetric(ord) == \A i, j \in 1..3 : ord[i][j] = Reverse(ord[j][i])

Transitive(ord) ==
  \A i, j, k \in 1..3 :
    (ord[i][j] # "Greater" /\ ord[j][k] # "Greater") => ord[i][k] # "Greater"

\* C15: compare is a total order on Values: for all a, b, c it is
\* antisymmetric (compare(a,b) is the reverse of compare(b,a)) and transitive
\* (compare(a,b) != Greater and compare(b,c) != Greater imply compare(a,c) !=
\* Greater), including when numeric-looking and non-numeric strings are
\* mixed.
C15_CompareIsTotalOrder ==
  computed.op = "compare" => (Antisymmetric(computed.ord) /\ Transitive(computed.ord))

\* compare(a, b) is the reverse of compare(b, a).
CompareAntisymmetric ==
  computed.op = "compare" => Antisymmetric(computed.ord)

\* ------------------------------------------------------------------- loops

\* The whole number nearest to h / 2, a half going away from zero.
Nearest(h) ==
  IF h % 2 = 0 THEN h \div 2
  ELSE IF h > 0 THEN (h + 1) \div 2
  ELSE (h - 1) \div 2

\* max(0, round(t)) for a finite t; -1 stands for a count without end.
RoundedCount(t) ==
  IF t.k = "inf" THEN 0 - 1
  ELSE IF ~is_finite(t) \/ Nearest(Halves(t)) < 0 THEN 0
  ELSE Nearest(Halves(t))

\* The history entry of the loop whose frame is on top of the call stack.
LoopEntry ==
  CHOOSE r \in 1..Len(trace) :
    /\ trace[r].depth = Len(stack) - 1
    /\ \A j \in (r + 1)..Len(trace) : trace[j].depth # Len(stack) - 1

\* How often the body of that loop has been entered.
BodiesRun ==
  Cardinality({j \in (LoopEntry + 1)..Len(trace) :
                 trace[j].ev = "stmt" /\ trace[j].depth = Len(stack)})

\* A loop whose count is a literal
LiteralCount(stmt) == stmt.times.e = "Lit"

\* Repeat is entered: it runs its body if it is to run at least once, and
\* returns at once otherwise.
RepeatEnters(n) ==
  IF n = 0 THEN ctl' = Ret("Ok") /\ DataUnchanged
  ELSE ctl' = Exec(ctl.sprite, ctl.stmt.body)

\* The body of a Repeat of n returned Ok: the loop goes on until its body
\* has run n times, and then returns Ok.
RepeatGoesOn(n) ==
  IF n = 0 - 1 \/ BodiesRun < n
  THEN ctl' = Exec(Top.sprite, Top.stmt.body) /\ stack' # Pop
  ELSE /\ BodiesRun = n
       /\ ctl' = Ret("Ok")
       /\ stack' = Pop
       /\ (Top.stmt.body = ChangeVariableBy("x", N(2))) => vars["x"] = Num(Fin(2 * n))

\* C16: Repeat executes its body exactly max(0, round(to_num(times))) times
\* when that number is finite and no signal or error is raised, so Repeat 3
\* of ChangeVariableBy(x, 2) with x unset ends with vars[x] = Num 6; with
\* times = +Infinity it never finishes on its own.
C16_RepeatCount ==
  [][ /\ (CanExec("Repeat") /\ LiteralCount(ctl.stmt)) =>
           RepeatEnters(RoundedCount(to_num(ctl.stmt.times.v)))
      /\ (Returning("Repeat") /\ ctl.res = "Ok" /\ LiteralCount(Top.stmt)) =>
           RepeatGoesOn(RoundedCount(to_num(Top.stmt.times.v))) ]_allvars

\* C16's case: Repeat 3 of ChangeVariableBy(x, 2) has returned, its body was
\* run three times, the statement after it was reached and x holds 6.
C16_Witness ==
  /\ \E r \in 1..Len(trace) :
       /\ trace[r].ev = "stmt"
       /\ trace[r].stmt = RepeatAdd(Num(Fin(3)))
       /\ Len(trace) = r + 4
       /\ \A j \in (r + 1)..(r + 3) : trace[j].stmt = ChangeVariableBy("x", N(2))
       /\ trace[r + 4].stmt = Say(<<"b">>)
  /\ "x" \in DOMAIN vars
  /\ vars["x"] = Num(Fin(6))

\* The least whole number that is not less than h / 2.
Ceiling(h) == IF h % 2 = 0 THEN h \div 2 ELSE (h + 1) \div 2

\* max(0, ceil(t)) for a finite t; -1 stands for a count without end.
CeilingCount(t) ==
  IF t.k = "inf" THEN 0 - 1
  ELSE IF ~is_finite(t) \/ Ceiling(Halves(t)) < 0 THEN 0
  ELSE Ceiling(Halves(t))

\* `after` is `before` with Num(i) stored in the variable `id`.
CounterSet(before, after, id, i) ==
  /\ DOMAIN after = DOMAIN before \cup {id}
  /\ after[id] = Num(Fin(i))
  /\ \A v \in DOMAIN before \ {id} : after[v] = before[v]

\* For is entered: it stores 1 and runs its body if it is to run at least
\* once, and returns at once with the variables as they were otherwise.
ForEnters(n) ==
  IF n = 0 THEN ctl' = Ret("Ok") /\ DataUnchanged
  ELSE /\ ctl' = Exec(ctl.sprite, ctl.stmt.body)
       /\ CounterSet(vars, vars', ctl.stmt.counter_id, 1)

\* 1, 2, ..., n as Values
UpTo(n) == [k \in 1..n |-> Num(Fin(k))]

\* The body of a For up to n returned Ok: the loop stores the next i and
\* goes on until its body has run n times, and then returns Ok.
ForGoesOn(n) ==
  IF n = 0 - 1 \/ BodiesRun < n
  THEN /\ ctl' = Exec(Top.sprite, Top.stmt.body)
       /\ stack' # Pop
       /\ CounterSet(vars, vars', Top.stmt.counter_id, BodiesRun + 1)
  ELSE /\ BodiesRun = n
       /\ ctl' = Ret("Ok")
       /\ stack' = Pop
       /\ vars' = vars
       /\ (Top.stmt.body = AddToList("seen", GetVar("i"))) => lists["seen"] = UpTo(n)

\* C17: For { counter_id, times, body } runs the body once for each i = 1,
\* 2, ..., ceil(to_num(times)) in increasing order, storing Num(i) in
\* vars[counter_id] before the i-th execution; when ceil(to_num(times)) < 1
\* the body never runs and vars[counter_id] is left unchanged.
C17_ForCounts ==
  [][ /\ (CanExec("For") /\ LiteralCount(ctl.stmt)) =>
           ForEnters(CeilingCount(to_num(ctl.stmt.times.v)))
      /\ (Returning("For") /\ ctl.res = "Ok" /\ LiteralCount(Top.stmt)) =>
           ForGoesOn(CeilingCount(to_num(Top.stmt.times.v))) ]_allvars

\* C17's case: For i up to 2.5 of AddToList(seen, i) has returned, the list
\* holds 1, 2, 3, i holds 3 and the statement after the loop was reached.
C17_Witness ==
  /\ \E r \in 1..Len(trace) :
       /\ trace[r].ev = "stmt"
       /\ trace[r].stmt = ForSeen(Num(Half(5)))
       /\ Len(trace) = r + 4
       /\ trace[r + 4].stmt = Say(<<"b">>)
  /\ "seen" \in DOMAIN lists
  /\ lists["seen"] = UpTo(3)
  /\ vars["i"] = Num(Fin(3))

\* --------------------------------------------------------------- variables

\* The number a variable counts as: to_num of what it holds, 0 if unset.
Previous(id) == IF id \in DOMAIN vars THEN to_num(vars[id]) ELSE Fin(0)

\* `after` is `before` with the Value `v` stored in the variable `id`.
Stored(before, after, id, v) ==
  /\ DOMAIN after = DOMAIN before \cup {id}
  /\ after[id] = v
  /\ \A o \in DOMAIN before \ {id} : after[o] = before[o]

\* ChangeVariableBy whose delta evaluates to d
ChangesBy(d) ==
  /\ ctl' = Ret("Ok")
  /\ Stored(vars, vars', ctl.stmt.var_id,
            Num(FAdd(Previous(ctl.stmt.var_id), to_num(d))))
  /\ vars'[ctl.stmt.var_id].t = "Num"

\* SetVariable of a GetVar stores what the variable read holds, and the
\* empty string if it was never assigned.
ReadsVariable ==
  /\ ctl' = Ret("Ok")
  /\ Stored(vars, vars', ctl.stmt.var_id,
            IF ctl.stmt.value.var_id \in DOMAIN vars
            THEN vars[ctl.stmt.value.var_id] ELSE Str(<<>>))

\* C18: GetVar on an id that was never assigned evaluates to the empty
\* string, and ChangeVariableBy on any id stores Num(to_num(previous value, 0
\* if unset) + to_num(delta)), so the variable always holds a Num afterwards
\* even if it held a non-numeric string before.
C18_Variables ==
  [][ /\ (CanExec("ChangeVariableBy") /\ ctl.stmt.value.e = "Lit") =>
           ChangesBy(ctl.stmt.value.v)
      /\ (CanExec("SetVariable") /\ ctl.stmt.value.e = "GetVar") =>
           ReadsVariable ]_allvars

\* C18's case: x held "abc" and was changed by 1.5, so that it holds Num 1.5,
\* and the read of the unassigned z gave the empty string.
C18_Witness ==
  /\ \E r \in 1..Len(trace) :
       /\ trace[r].ev = "stmt"
       /\ trace[r].stmt = SetVariable("x", Lit(Str(<<"a", "b", "c">>)))
       /\ Len(trace) >= r + 3
       /\ trace[r + 1].stmt = ChangeVariableBy("x", Lit(Str(<<"1", ".", "5">>)))
  /\ {"x", "y", "w"} \subseteq DOMAIN vars
  /\ "z" \notin DOMAIN vars
  /\ vars["x"] = Num(Half(3))
  /\ vars["y"] = Num(Half(3))
  /\ vars["w"] = Str(<<>>)

\* ------------------------------------------------------------------- lists

\* The list `id` as stored, empty if there is none.
ListOf(id) == IF id \in DOMAIN lists THEN lists[id] ELSE <<>>

\* The list has no item at the index: there is no index, or it is past the
\* end, or it is Last and the list is empty.
NoItemAt(lst, ix) ==
  \/ ~ix.some
  \/ ix.v.i = "Nth" /\ ix.v.n >= Len(lst)
  \/ ix.v.i = "Last" /\ lst = <<>>

\* C19: DeleteOfList and ReplaceItemOfList return success and leave every
\* list (its existence, length and contents) unchanged when the list does
\* not exist, when to_index of the index is None, or when the index is past
\* the end of the list (including Last on an empty list).
C19_NoItemNoChange ==
  [][ ((CanExec("DeleteOfList") \/ CanExec("ReplaceItemOfList"))
         /\ ctl.stmt.index.e = "Lit"
         /\ (ctl.stmt.list_id \notin DOMAIN lists
               \/ NoItemAt(lists[ctl.stmt.list_id], to_index(ctl.stmt.index.v)))) =>
        /\ ctl' = Ret("Ok")
        /\ lists' = lists ]_allvars

\* C19's case: after l became <<"a">>, ReplaceItemOfList at 2 and
\* DeleteOfList at "x" have run and l is as it was.
C19_Witness ==
  /\ \E r \in 1..Len(trace) :
       /\ trace[r].ev = "stmt"
       /\ trace[r].stmt = AddToList("l", Lit(Str(<<"a">>)))
       /\ trace[r - 1].stmt.type = "Do"
       /\ Len(trace) >= r + 3
       /\ trace[r + 1].stmt = ReplaceItemOfList("l", N(2), Lit(Str(<<"z">>)))
       /\ trace[r + 2].stmt = DeleteOfList("l", Lit(Str(<<"x">>)))
  /\ "l" \in DOMAIN lists
  /\ lists["l"] = <<Str(<<"a">>)>>

\* The 1-based position an index stands for in a list, 0 if none.
Position(lst, ix) ==
  IF ~ix.some THEN 0
  ELSE IF ix.v.i = "Last" THEN Len(lst)
  ELSE ix.v.n + 1

\* The sequence without its k-th element; as it is if it has none.
Removed(s, k) ==
  IF k \in 1..Len(s)
  THEN [j \in 1..(Len(s) - 1) |-> IF j < k THEN s[j] ELSE s[j + 1]]
  ELSE s

\* The sequence with v as its k-th element; as it is if it has none.
Overwritten(s, k, v) ==
  IF k \in 1..Len(s) THEN [j \in 1..Len(s) |-> IF j = k THEN v ELSE s[j]] ELSE s

\* The reference list, [exists, items], after one more statement.
Updated(ref, stmt) ==
  CASE stmt.type = "AddToList" ->
         [exists |-> TRUE, items |-> Append(ref.items, stmt.item.v)]
    [] stmt.type = "DeleteAllOfList" -> [exists |-> TRUE, items |-> <<>>]
    [] stmt.type = "DeleteOfList" ->
         [ref EXCEPT !.items = Removed(@, Position(@, to_index(stmt.index.v)))]
    [] stmt.type = "ReplaceItemOfList" ->
         [ref EXCEPT !.items = Overwritten(@, Position(@, to_index(stmt.index.v)),
                                           stmt.item.v)]
    [] OTHER -> ref

ListStatements == {"AddToList", "DeleteAllOfList", "DeleteOfList", "ReplaceItemOfList"}

\* The history entry n is a statement on the list l.
OnList(n) ==
  /\ trace[n].ev = "stmt"
  /\ trace[n].stmt.type \in ListStatements
  /\ trace[n].stmt.list_id = "l"

\* The reference list after the first n entries of the history.
RECURSIVE Reference(_)
Reference(n) ==
  IF n = 0 THEN [exists |-> FALSE, items |-> <<>>]
  ELSE IF OnList(n) THEN Updated(Reference(n - 1), trace[n].stmt)
  ELSE Reference(n - 1)

\* The statements that were run on l had literal arguments.
LiteralArguments ==
  \A n \in 1..Len(trace) :
    OnList(n) =>
      /\ trace[n].stmt.type \in {"DeleteOfList", "ReplaceItemOfList"} =>
           trace[n].stmt.index.e = "Lit"
      /\ trace[n].stmt.type \in {"AddToList", "ReplaceItemOfList"} =>
           trace[n].stmt.item.e = "Lit"

\* The item of the reference list at the literal index, "" if it has none.
ReferenceItem(ref, index) ==
  IF Position(ref.items, to_index(index)) \in 1..Len(ref.items)
  THEN ref.items[Position(ref.items, to_index(index))]
  ELSE Str(<<>>)

\* What the read that was run last stored is what the reference list gives.
ReadAgrees(ref, stmt) ==
  /\ (stmt.type = "SetVariable" /\ stmt.value.e = "LengthOfList"
        /\ stmt.value.list_id = "l") =>
       vars[stmt.var_id] = Num(Fin(Len(ref.items)))
  /\ (stmt.type = "SetVariable" /\ stmt.value.e = "ItemOfList"
        /\ stmt.value.list_id = "l" /\ stmt.value.index.e = "Lit") =>
       vars[stmt.var_id] = ReferenceItem(ref, stmt.value.index.v)

ListAgrees(ref) ==
  /\ ("l" \in DOMAIN lists) = ref.exists
  /\ ListOf("l") = ref.items
  /\ (trace # <<>> /\ Last(trace).ev = "stmt") => ReadAgrees(ref, Last(trace).stmt)

\* C20: after any sequence of AddToList, DeleteAllOfList, DeleteOfList and
\* ReplaceItemOfList on a list id, the stored list equals a reference
\* sequence updated by append-at-end, clear (creating the list if absent),
\* remove-at-1-based-index and overwrite-at-1-based-index; LengthOfList
\* returns its length (0 if absent) and ItemOfList k returns its k-th element
\* or the empty string when out of range.
C20_ListsFollowReference ==
  (mainpc = "run" /\ LiteralArguments) => ListAgrees(Reference(Len(trace)))

\* C20's case: "a" and 7 were added to l and the first item was deleted; l
\* holds 7, its length was read as 1, its first item as 7 and its second and
\* third as the empty string.
C20_Witness ==
  /\ \E r \in 1..Len(trace) :
       /\ trace[r].ev = "stmt"
       /\ trace[r].stmt = AddToList("l", Lit(Str(<<"a">>)))
       /\ trace[r - 1].stmt.type = "Do"
       /\ Len(trace) = r + 6
       /\ trace[r + 1].stmt = AddToList("l", N(7))
       /\ trace[r + 2].stmt = DeleteOfList("l", N(1))
       /\ trace[r + 6].stmt = SetVariable("e3", ItemOfList("l", N(3)))
  /\ lists["l"] = <<Num(Fin(7))>>
  /\ vars["n"] = Num(Fin(1))
  /\ vars["e1"] = Num(Fin(7))
  /\ vars["e2"] = Str(<<>>)
  /\ vars["e3"] = Str(<<>>)

\* ----------------------------------------------------------------- letters

\* A string of exactly one character
OneCharacter(v) == v.t = "Str" /\ Len(v.s) = 1

\* What operator_letter_of gave is a letter exactly if i is from 1 to what
\* operator_length gave, and the empty string otherwise.
LetterWithinLength(i, length, letter) ==
  IF 1 <= i /\ FCmp(Fin(i), length.n) # "Greater" THEN OneCharacter(letter)
  ELSE letter = Str(<<>>)

\* C21: operator_length and operator_letter_of use the same unit of string
\* length: for every string s and integer i, operator_letter_of(i, s) is a
\* non-empty one-character string exactly when 1 <= i <= operator_length(s),
\* and is the empty string otherwise (also for index "last").
C21_LetterOfWithinLength ==
  (computed.op = "letter_of" /\ operands[1].t = "Str") =>
    /\ computed.length.ok
    /\ computed.letter.ok
    /\ (operands[2].t = "Num" /\ operands[2].n.k = "fin") =>
         LetterWithinLength(operands[2].n.v, computed.length.v, computed.letter.v)
    /\ (operands[2] = Str(<<"l", "a", "s", "t">>)) => computed.letter.v = Str(<<>>)

\* ----------------------------------------------------------------- borrows

\* What a handler does with the RefCells vars, lists, proc_args and answer,
\* in the order of its code: it evaluates an expression ("eval"), calls
\* run_statement or run_proc ("call"), borrows a cell ("borrow",
\* "borrow_mut") or drops the borrow ("release").  A borrow that is a
\* temporary of one statement is released at the end of that statement.
Eval == [ev |-> "eval", cell |-> ""]

CallBody == [ev |-> "call", cell |-> ""]

BorrowOf(cell) == [ev |-> "borrow", cell |-> cell]

BorrowMut(cell) == [ev |-> "borrow_mut", cell |-> cell]

Release(cell) == [ev |-> "release", cell |-> cell]

\* A handler that keeps its borrow of vars while it runs its body.
ScopesHolding(stmt) == <<Eval, BorrowMut("vars"), CallBody, Release("vars")>>

\* VM::call_builtin_statement
BuiltinScopes(opcode) ==
  IF opcode = "event_broadcastandwait" THEN <<Eval, CallBody>>
  ELSE IF opcode = "sensing_askandwait"
  THEN <<Eval, BorrowMut("answer"), Release("answer")>>
  ELSE <<Eval>>

\* VM::run_statement, Statement::For
ForScopes(stmt) == <<Eval, BorrowMut("vars"), Release("vars"), CallBody>>

\* VM::run_statement
StatementScopes(stmt) ==
  CASE stmt.type = "Builtin" -> BuiltinScopes(stmt.opcode)
    [] stmt.type \in {"Do", "Forever"} -> <<CallBody>>
    [] stmt.type \in {"If", "IfElse", "Repeat", "Until", "While"} -> <<Eval, CallBody>>
    [] stmt.type = "For" -> ForScopes(stmt)
    [] stmt.type = "ProcCall" ->
         IF stmt.proccode \in ReservedProccodes THEN <<Eval>>
         ELSE <<Eval, BorrowMut("proc_args"), Release("proc_args"), CallBody,
                BorrowMut("proc_args"), Release("proc_args")>>
    [] stmt.type = "DeleteAllOfList" -> <<BorrowMut("lists"), Release("lists")>>
    [] stmt.type \in {"DeleteOfList", "AddToList"} ->
         <<Eval, BorrowMut("lists"), Release("lists")>>
    [] stmt.type = "ReplaceItemOfList" ->
         <<Eval, Eval, BorrowMut("lists"), Release("lists")>>
    [] stmt.type \in {"SetVariable", "ChangeVariableBy"} ->
         <<Eval, BorrowMut("vars"), Release("vars")>>
    [] OTHER -> <<>>

\* VM::eval_expr and VM::eval_funcall
ExprScopes(expr) ==
  CASE expr.e = "GetVar" -> <<BorrowOf("vars"), Release("vars")>>
    [] expr.e = "ProcArgStringNumber" -> <<BorrowOf("proc_args"), Release("proc_args")>>
    [] expr.e = "ItemOfList" -> <<Eval, BorrowOf("lists"), Release("lists")>>
    [] expr.e = "LengthOfList" -> <<BorrowOf("lists"), Release("lists")>>
    [] expr.e = "Call" ->
         IF expr.opcode = "sensing_answer"
         THEN <<BorrowOf("answer"), Release("answer")>> ELSE <<Eval>>
    [] OTHER -> <<>>

\* The borrows [cell, mut] that are held before the k-th step of `scopes`.
HeldBefore(scopes, k) ==
  {[cell |-> scopes[j].cell, mut |-> scopes[j].ev = "borrow_mut"] :
     j \in {i \in 1..(k - 1) :
              /\ scopes[i].ev \in {"borrow", "borrow_mut"}
              /\ \A r \in (i + 1)..(k - 1) :
                   ~(scopes[r].ev = "release" /\ scopes[r].cell = scopes[i].cell)}}

\* The borrows held while `scopes` does a step of the kind `ev`.
HeldAt(scopes, ev) ==
  UNION {HeldBefore(scopes, k) : k \in {i \in 1..Len(scopes) : scopes[i].ev = ev}}

\* The borrows the handler takes itself.
Taken(scopes) ==
  {[cell |-> scopes[i].cell, mut |-> scopes[i].ev = "borrow_mut"] :
     i \in {k \in 1..Len(scopes) : scopes[k].ev \in {"borrow", "borrow_mut"}}}

\* The expressions eval_expr is called on below `expr`, `expr` included.
RECURSIVE SubExprs(_)
SubExprs(expr) ==
  {expr} \cup
    (CASE expr.e = "ItemOfList" -> SubExprs(expr.index)
       [] expr.e = "Call" -> UNION {SubExprs(expr.inputs[n]) : n \in DOMAIN expr.inputs}
       [] OTHER -> {})

\* The expressions a statement evaluates itself.
OwnExprs(stmt) ==
  CASE stmt.type = "Builtin" -> {stmt.inputs[n] : n \in DOMAIN stmt.inputs}
    [] stmt.type \in {"If", "IfElse", "Until", "While"} -> {stmt.condition}
    [] stmt.type \in {"Repeat", "For"} -> {stmt.times}
    [] stmt.type = "ProcCall" -> {stmt.args[i].expr : i \in 1..Len(stmt.args)}
    [] stmt.type = "DeleteOfList" -> {stmt.index}
    [] stmt.type = "AddToList" -> {stmt.item}
    [] stmt.type = "ReplaceItemOfList" -> {stmt.index, stmt.item}
    [] stmt.type \in {"SetVariable", "ChangeVariableBy"} -> {stmt.value}
    [] OTHER -> {}

EvaluatedBy(stmt) == UNION {SubExprs(e) : e \in OwnExprs(stmt)}

\* The borrows held by the frames of the call stack while their callee runs.
HeldOnStack ==
  UNION {IF stack[i].kind \in {"Run", "RunProc"} THEN {}
         ELSE HeldAt(StatementScopes(stack[i].stmt), "call") : i \in 1..Len(stack)}

\* RefCell: a borrow conflicts with a mutable borrow of the same cell.
Conflict(held, taken) ==
  \E h \in held, t \in taken : h.cell = t.cell /\ (h.mut \/ t.mut)

\* The borrows the statement and the expressions it evaluates take.
TakenBy(stmt) ==
  Taken(StatementScopes(stmt))
    \cup UNION {Taken(ExprScopes(e)) : e \in EvaluatedBy(stmt)}

\* Nothing is held across a call of the evaluator by the statement that is
\* entered or by the expressions it evaluates.
HoldsNothing(stmt) ==
  /\ HeldAt(StatementScopes(stmt), "eval") = {}
  /\ HeldAt(StatementScopes(stmt), "call") = {}
  /\ \A e \in EvaluatedBy(stmt) : HeldAt(ExprScopes(e), "eval") = {}

\* C22: no borrow of vars, lists, proc_args or answer is held while
\* run_statement or eval_expr is called recursively, so no reachable
\* execution (including recursion and broadcasts nested inside procedure
\* calls and list/variable statements) hits a conflicting borrow.
C22_NoBorrowAcrossCalls ==
  (mainpc = "run" /\ ctl.mode = "exec") =>
    /\ HeldOnStack = {}
    /\ HoldsNothing(ctl.stmt)
    /\ ~Conflict(HeldOnStack, TakenBy(ctl.stmt))

\* C22's case: a custom procedure is called again, pushing onto proc_args,
\* inside a receiver run by a broadcast that the procedure's own body sent.
C22_Witness ==
  /\ mainpc = "run"
  /\ ctl.mode = "exec"
  /\ ctl.stmt.type = "ProcCall"
  /\ ctl.stmt.proccode = "f %s"
  /\ \E i, j \in 1..Len(stack) :
       /\ i < j
       /\ stack[i].kind = "ProcCall"
       /\ stack[j].kind = "Broadcast"

\* ------------------------------------------------------- call arguments

\* A custom procedure is called with several arguments and its body is
\* entered.
EntersBodyWithArgs ==
  /\ mainpc = "run"
  /\ ctl.mode = "exec"
  /\ ctl.stmt.type = "ProcCall"
  /\ ctl.stmt.proccode \in DOMAIN CustomProcs(ctl.sprite)
  /\ ctl.stmt.proccode \notin ReservedProccodes
  /\ Len(ctl.stmt.args) > 1
  /\ ctl'.mode = "exec"
  /\ Len(stack') = Len(stack) + 1

\* The parameter the k-th argument of the entered call is bound to.
ParameterOf(k) ==
  CustomProcs(ctl.sprite)[ctl.stmt.proccode].arg_names_by_id[ctl.stmt.args[k].id]

\* C23: in a ProcCall with several arguments every argument expression is
\* evaluated against the caller's parameter bindings: when the body is
\* entered, each parameter's top of stack is the value its argument has under
\* proc_args as it was before the call began, whatever the order in which
\* the arguments are evaluated and pushed.
C23_ArgsSeeCallerBindings ==
  [][EntersBodyWithArgs =>
       \A k \in 1..Len(ctl.stmt.args) :
         /\ ParameterOf(k) \in DOMAIN proc_args'
         /\ proc_args'[ParameterOf(k)] # <<>>
         /\ OkV(Last(proc_args'[ParameterOf(k)]))
              = EvalExpr(proc_args, ctl.sprite, ctl.stmt.args[k].expr)]_allvars

\* ------------------------------------------------------------------ motion

MotionOpcodes ==
  {"motion_gotoxy", "motion_setx", "motion_sety", "motion_changexby",
   "motion_changeyby"}

\* The sprite whose hat or receiver is running: run_proc was entered last
\* for it.
ScriptSprite ==
  stack[CHOOSE i \in 1..Len(stack) :
          /\ stack[i].kind = "RunProc"
          /\ \A j \in (i + 1)..Len(stack) : stack[j].kind # "RunProc"].sprite

\* A motion statement is run.
Moves ==
  /\ mainpc = "run"
  /\ ctl.mode = "exec"
  /\ ctl.stmt.type = "Builtin"
  /\ ctl.stmt.opcode \in MotionOpcodes
  /\ ctl' # ctl

\* The number a motion statement is given as its input `name`.
Given(name) == to_num(EvalExpr(proc_args, ScriptSprite, ctl.stmt.inputs[name]).v)

\* Where a motion statement that succeeds leaves the sprite that was at `at`.
Destination(at) ==
  CASE ctl.stmt.opcode = "motion_gotoxy" -> [x |-> Given("X"), y |-> Given("Y")]
    [] ctl.stmt.opcode = "motion_setx" -> [x |-> Given("X"), y |-> at.y]
    [] ctl.stmt.opcode = "motion_sety" -> [x |-> at.x, y |-> Given("Y")]
    [] ctl.stmt.opcode = "motion_changexby" -> [x |-> FAdd(at.x, Given("DX")), y |-> at.y]
    [] ctl.stmt.opcode = "motion_changeyby" -> [x |-> at.x, y |-> FAdd(at.y, Given("DY"))]

\* C24: a motion statement changes only the x/y of the sprite whose script
\* executes it and leaves every other sprite's x/y, and all vars, lists and
\* proc_args, unchanged; inside a broadcast receiver the affected sprite is
\* the receiver's sprite, not the broadcaster's.
C24_MotionMovesOwnSprite ==
  [][Moves =>
       /\ \A s \in DOMAIN xy : s # ScriptSprite => xy'[s] = xy[s]
       /\ vars' = vars
       /\ lists' = lists
       /\ proc_args' = proc_args
       /\ (ctl'.mode = "ret" /\ ctl'.res = "Ok")
            => xy'[ScriptSprite] = Destination(xy[ScriptSprite])]_allvars

\* C24's case: the second sprite's receiver of a broadcast sent by the first
\* sprite has run a motion statement and the second sprite has moved.
C24_Witness ==
  /\ mainpc = "run"
  /\ ctl.mode = "ret"
  /\ ctl.res = "Ok"
  /\ trace # <<>>
  /\ Last(trace).stmt.type = "Builtin"
  /\ Last(trace).stmt.opcode \in MotionOpcodes
  /\ Last(trace).sprite = 2
  /\ Len(stack) > 1
  /\ Top.kind = "RunProc"
  /\ stack[Len(stack) - 1].kind = "Broadcast"
  /\ stack[Len(stack) - 1].sprite = 1
  /\ xy[2] # [x |-> Fin(5), y |-> Fin(5)]
  /\ xy[1] # [x |-> Fin(0), y |-> Fin(0)]

\* ------------------------------------------------------------ build_procs

\* Option<&Json>::and_then(Json::as_str)
AndThenAsStr(o) == IF o.some /\ o.v.j = "str" THEN Some(o.v.s) ELSE None

\* argumentids and argumentnames of a Mutation: None, or Some of what
\* serde_json::from_str makes of the string: it is valid JSON for the Vec
\* `names`, or it is not.  `.expect(..)` on either panics.
Parsed(names) == [valid |-> TRUE, names |-> names]

NotJson == [valid |-> FALSE, names |-> <<>>]

ArgList(field) ==
  IF field.some /\ field.v.valid THEN OkV(field.v.names) ELSE ErrV("panic")

Min(a, b) == IF a < b THEN a ELSE b

\* arg_ids.into_iter().zip(arg_names.into_iter()).collect::<HashMap>()
ZipArgs(ids, names) ==
  [id \in {ids[i] : i \in 1..Min(Len(ids), Len(names))} |->
     names[CHOOSE i \in 1..Min(Len(ids), Len(names)) :
             /\ ids[i] = id
             /\ \A j \in (i + 1)..Min(Len(ids), Len(names)) : ids[j] # id]]

\* A custom procedure, given its built body and its prototype block.
CustomOfProto(body, proto) ==
  IF ~proto.mutation.some THEN ErrV("MissingMutation")
  ELSE IF ~proto.mutation.v.proccode.some THEN ErrV("panic")
  ELSE IF ~ArgList(proto.mutation.v.argumentids).ok THEN ErrV("panic")
  ELSE IF ~ArgList(proto.mutation.v.argumentnames).ok THEN ErrV("panic")
  ELSE OkV([name |-> proto.mutation.v.proccode.v,
            custom |-> [arg_names_by_id |->
                          ZipArgs(ArgList(proto.mutation.v.argumentids).v,
                                  ArgList(proto.mutation.v.argumentnames).v),
                        body |-> body.v]])

\* The "procedures_definition" arm below `if let Some(next)`, given the
\* built body and the id of the prototype.
CustomOf(blks, body, proto_id) ==
  IF ~body.ok THEN body
  ELSE IF ~proto_id.some THEN ErrV("panic")
  ELSE IF ~get(blks, proto_id.v).ok THEN get(blks, proto_id.v)
  ELSE CustomOfProto(body, get(blks, proto_id.v).v)

NoProcs == [when_flag_clicked |-> <<>>, custom |-> EmptyMap, broadcasts |-> <<>>]

\* One more custom procedure, green-flag body or receiver for the Procs.
AddCustom(acc, c) == [acc EXCEPT !.custom = Insert(@, c.name, c.custom)]

AddFlag(acc, body) == [acc EXCEPT !.when_flag_clicked = Append(@, body)]

AddBroadcast(acc, name, body) ==
  [acc EXCEPT !.broadcasts = Append(@, Proc(WhenBroadcastReceived(name), body))]

\* DeCtx::build_procs from the k-th block of `order`, the order in which
\* blocks.values() iterates.
RECURSIVE build_procs(_, _, _, _, _)

\* The rest of the loop, given what the arm of the k-th block made.
ProcsAfter(made, kind, name, blks, order, k, acc, fuel) ==
  IF ~made.ok THEN made
  ELSE build_procs(blks, order, k + 1,
                   CASE kind = "custom" -> AddCustom(acc, made.v)
                     [] kind = "flag" -> AddFlag(acc, made.v)
                     [] kind = "broadcast" -> AddBroadcast(acc, name.v, made.v),
                   fuel)

build_procs(blks, order, k, acc, fuel) ==
  IF k > Len(order) THEN OkV(acc)
  ELSE IF ~blks[order[k]].next.some THEN build_procs(blks, order, k + 1, acc, fuel)
  ELSE CASE blks[order[k]].opcode = "procedures_definition" ->
              ProcsAfter(CustomOf(blks,
                                  build_statement(blks, blks[order[k]].next.v, fuel),
                                  AndThenAsStr(AndThenGetRep(
                                    Lookup(blks[order[k]].inputs, "custom_block")))),
                         "custom", OkV(<<>>), blks, order, k, acc, fuel)
         [] blks[order[k]].opcode = "event_whenflagclicked" ->
              ProcsAfter(build_statement(blks, blks[order[k]].next.v, fuel),
                         "flag", OkV(<<>>), blks, order, k, acc, fuel)
         [] blks[order[k]].opcode = "event_whenbroadcastreceived" ->
              IF ~str_field(blks[order[k]], "BROADCAST_OPTION").ok
              THEN str_field(blks[order[k]], "BROADCAST_OPTION")
              ELSE ProcsAfter(build_statement(blks, blks[order[k]].next.v, fuel),
                              "broadcast", str_field(blks[order[k]], "BROADCAST_OPTION"),
                              blks, order, k, acc, fuel)
         [] OTHER -> build_procs(blks, order, k + 1, acc, fuel)

\* The sprite the VM runs, made of the Procs of its blocks.
SpriteOfProcs(procs) ==
  [procs |-> [i \in 1..Len(procs.when_flag_clicked) |->
                Proc(WhenFlagClicked, procs.when_flag_clicked[i])]
               \o procs.broadcasts,
   custom_procs |-> procs.custom,
   x |-> Fin(0), y |-> Fin(0)]

\* What the mutation of a procedures_prototype may be.
GoodMutation ==
  [proccode |-> Some("f %s"), argumentids |-> Some(Parsed(<<"a1">>)),
   argumentnames |-> Some(Parsed(<<"n">>))]

ProtoMutations ==
  { Some(GoodMutation), None,
    Some([GoodMutation EXCEPT !.proccode = None]),
    Some([GoodMutation EXCEPT !.argumentids = None]),
    Some([GoodMutation EXCEPT !.argumentids = Some(NotJson)]),
    Some([GoodMutation EXCEPT !.argumentnames = None]) }

ProtoInputs ==
  { <<Pair("custom_block", JArr(<<JNum(1), JStr("proto")>>))>>, <<>> }

SayBlock(nxt, m) ==
  Block("looks_say", nxt,
        <<Pair("MESSAGE", JArr(<<JNum(1), JArr(<<JNum(10), JStr(m)>>)>>))>>,
        <<>>, None)

\* The blocks of a sprite: a definition of "f %s" whose body is one say or
\* nothing, its prototype, and a green-flag hat that calls it.
ProcBlocks(defNext, inputs, mutation, bodyOpcode, callNext) ==
  [id \in {"def", "proto", "body", "hat", "call", "after"} |->
     CASE id = "def" -> Block("procedures_definition", defNext, inputs, <<>>, None)
       [] id = "proto" -> Block("procedures_prototype", None, <<>>, <<>>, mutation)
       [] id = "body" -> [SayBlock(None, <<"p">>) EXCEPT !.opcode = bodyOpcode]
       [] id = "hat" -> Block("event_whenflagclicked", Some("call"), <<>>, <<>>, None)
       [] id = "call" ->
            Block("procedures_call", callNext,
                  <<Pair("a1", JArr(<<JNum(1), JArr(<<JNum(4), JStr(<<"7">>)>>)>>))>>,
                  <<>>, Some([proccode |-> Some("f %s")]))
       [] id = "after" -> SayBlock(None, <<"b">>)]

ProcBlockMaps ==
  { ProcBlocks(defNext, inputs, mutation, bodyOpcode, callNext) :
      defNext \in {None, Some("body"), Some("missing")},
      inputs \in ProtoInputs,
      mutation \in ProtoMutations,
      bodyOpcode \in {"looks_say", "looks_think"},
      callNext \in {None, Some("after")} }

\* The orders in which blocks.values() may reach the hats of `blks`.
HatOrders(blks) ==
  {o \in [1..2 -> {"def", "hat"}] : o[1] # o[2]}

\* A sprite's blocks are lowered by build_procs and the project is run.
InitProcs ==
  /\ mainpc = "deser"
  /\ exitCode = -1
  /\ stderr = ""
  /\ project = NoProject
  /\ ctl = Idle
  /\ stack = <<>>
  /\ vars = EmptyMap
  /\ lists = EmptyMap
  /\ proc_args = EmptyMap
  /\ answer = <<>>
  /\ xy = <<>>
  /\ out = <<>>
  /\ trace = <<>>
  /\ blocks \in ProcBlockMaps
  /\ lowered = NotLowered
  /\ operands = <<>>
  /\ computed = NotComputed

\* serde_json::from_reader on a project of one sprite: build_procs on its
\* blocks; an Err ends main with "Deserialization error", a panic aborts.
BuildProcs ==
  /\ mainpc = "deser"
  /\ project = NoProject
  /\ \E order \in HatOrders(blocks) :
     \E built \in {build_procs(blocks, order, 1, NoProcs, Fuel(blocks))} :
         IF built.ok
         THEN /\ project' = [sprites |-> <<SpriteOfProcs(built.v)>>]
              /\ xy' = <<[x |-> Fin(0), y |-> Fin(0)]>>
              /\ mainpc' = "run"
              /\ UNCHANGED <<exitCode, stderr>>
         ELSE /\ IF built.err = "panic" THEN Exit(101, "panicked")
                 ELSE Exit(0, "Deserialization error")
              /\ UNCHANGED <<project, xy>>
  /\ UNCHANGED <<ctl, stack, vars, lists, proc_args, answer, out, trace>>
  /\ UNCHANGED vars_lower
  /\ UNCHANGED vars_value

NextProcs ==
  \/ BuildProcs \/ MainExit \/ Abort
  \/ RunStart \/ RunHat \/ RunFinish \/ RetRunProc
  \/ ExecDo \/ RetDo
  \/ ExecProcCallMissing \/ ExecProcCall \/ RetProcCall
  \/ ExecBuiltin

SpecProcs == InitProcs /\ [][NextProcs]_allvars

\* The procedures_definition block "def" has a well-formed prototype: its
\* input custom_block names a block whose mutation holds a proccode and
\* argument ids and names that parse.
WellFormedDefinition ==
  /\ "def" \in DOMAIN blocks
  /\ blocks["def"].opcode = "procedures_definition"
  /\ Lookup(blocks["def"].inputs, "custom_block") = Some(JArr(<<JNum(1), JStr("proto")>>))
  /\ blocks["proto"].mutation.some
  /\ blocks["proto"].mutation.v.proccode.some
  /\ blocks["proto"].mutation.v.argumentids.some
  /\ blocks["proto"].mutation.v.argumentids.v.valid
  /\ blocks["proto"].mutation.v.argumentnames.some
  /\ blocks["proto"].mutation.v.argumentnames.v.valid

\* The last statement entered is a call of the procedure "def" defines.
CallsDefinition ==
  /\ trace # <<>>
  /\ Last(trace).ev = "stmt"
  /\ Last(trace).stmt.type = "ProcCall"
  /\ Last(trace).stmt.proccode = blocks["proto"].mutation.v.proccode.v

\* C25: every procedures_definition block with a well-formed prototype yields
\* a callable custom procedure: a ProcCall to its proccode succeeds even when
\* the definition has an empty body (the hat block has no next), in which
\* case the call does nothing.
C25_DefinitionIsCallable ==
  (mainpc = "run" /\ WellFormedDefinition) =>
    /\ blocks["proto"].mutation.v.proccode.v \in DOMAIN CustomProcs(1)
    /\ CallsDefinition => ctl.mode # "panic"
    /\ ~blocks["def"].next.some
         => CustomProcs(1)[blocks["proto"].mutation.v.proccode.v].body = NoBody

\* The same for the definitions that have a next: their procedure is in
\* custom_procs and calling it does not panic.
DefinitionWithBodyIsCallable ==
  (mainpc = "run" /\ WellFormedDefinition /\ blocks["def"].next.some) =>
    /\ blocks["proto"].mutation.v.proccode.v \in DOMAIN CustomProcs(1)
    /\ CallsDefinition => ctl.mode # "panic"

\* A definition with a body was called and its body has run.
DefinitionWithBodyWitness ==
  /\ mainpc = "run"
  /\ WellFormedDefinition
  /\ blocks["def"].next.some
  /\ ctl.mode = "done"
  /\ out = <<<<"p">>, <<"b">>>>

\* ------------------------------------------------- counts and conditions

\* The loop on top of the call stack reads x, which the statement before the
\* loop set to a literal.
ReadsSetCount ==
  /\ Top.stmt.times = GetVar("x")
  /\ LoopEntry > 1
  /\ trace[LoopEntry - 1].stmt.type = "SetVariable"
  /\ trace[LoopEntry - 1].stmt.var_id = "x"
  /\ trace[LoopEntry - 1].stmt.value.e = "Lit"

\* The number x held when that loop was entered.
CountAtEntry == to_num(trace[LoopEntry - 1].stmt.value.v)

\* The whole number x holds now.
NowX == vars["x"].n.v

\* The condition `x > c` of a While or an Until
ComparesX(stmt) ==
  /\ stmt.condition.e = "Call"
  /\ stmt.condition.opcode = "operator_gt"
  /\ stmt.condition.inputs["OPERAND1"] = GetVar("x")
  /\ stmt.condition.inputs["OPERAND2"].e = "Lit"
  /\ "x" \in DOMAIN vars
  /\ vars["x"].t = "Num"
  /\ vars["x"].n.k = "fin"

Limit(stmt) == stmt.condition.inputs["OPERAND2"].v.n.v

\* A While or an Until is entered, or its body returned Ok: the body runs
\* (again) if `runs`, and the loop returns Ok otherwise.
Decides(stmt, sprite, runs) ==
  IF runs THEN ctl' = Exec(sprite, stmt.body) ELSE ctl' = Ret("Ok")

\* C26: Repeat and For evaluate their times expression exactly once, before
\* the first iteration, so a body that changes the variables read by times
\* does not change the number of iterations; While and Until re-evaluate
\* their condition before every iteration, including the first.
C26_CountOnceConditionEachTime ==
  [][ /\ (Returning("Repeat") /\ ctl.res = "Ok" /\ ReadsSetCount) =>
           RepeatGoesOn(RoundedCount(CountAtEntry))
      /\ (Returning("For") /\ ctl.res = "Ok" /\ ReadsSetCount) =>
           ForGoesOn(CeilingCount(CountAtEntry))
      /\ (CanExec("While") /\ ComparesX(ctl.stmt)) =>
           Decides(ctl.stmt, ctl.sprite, NowX > Limit(ctl.stmt))
      /\ (Returning("While") /\ ctl.res = "Ok" /\ ComparesX(Top.stmt)) =>
           Decides(Top.stmt, Top.sprite, NowX > Limit(Top.stmt))
      /\ (CanExec("Until") /\ ComparesX(ctl.stmt)) =>
           Decides(ctl.stmt, ctl.sprite, ~(NowX > Limit(ctl.stmt)))
      /\ (Returning("Until") /\ ctl.res = "Ok" /\ ComparesX(Top.stmt)) =>
           Decides(Top.stmt, Top.sprite, ~(NowX > Limit(Top.stmt))) ]_allvars

\* C26's case: x was set to 2, a Repeat of x whose body adds 1 to x has
\* returned after two runs of its body with x at 4, and the statement after
\* the hat's middle statement was reached.
C26_Witness ==
  /\ \E r \in 1..Len(trace) :
       /\ trace[r].ev = "stmt"
       /\ trace[r].stmt = Repeat(GetVar("x"), ChangeVariableBy("x", N(1)))
       /\ trace[r - 1].stmt = SetVariable("x", N(2))
       /\ Len(trace) = r + 3
       /\ \A j \in (r + 1)..(r + 2) : trace[j].stmt = ChangeVariableBy("x", N(1))
       /\ trace[r + 3].stmt = Say(<<"b">>)
  /\ "x" \in DOMAIN vars
  /\ vars["x"] = Num(Fin(4))

====
